---------------------------- MODULE Spec2Model ----------------------------
(***************************************************************************)
(* naba: the request/response pipeline of the Gemini client                *)
(* (internal/gemini) and the output writer (internal/output).              *)
(*                                                                         *)
(* Strings are TLA+ strings; bytes are sequences of numbers 0..255.        *)
(* A response body is modelled by what encoding/json leaves in the Go      *)
(* structs it is unmarshalled into.                                        *)
(***************************************************************************)
EXTENDS Integers, Sequences, FiniteSets, TLC

VARIABLES
    pc,          \* "ready" before the client call, "done" after it returned
    req,         \* the GenerateRequest built by Generate / GenerateWithImage
    httpResp,    \* what the transport delivered for the POST
    ret,         \* ([]ImageResult, error) returned by the client call
    fs,          \* the filesystem namespace: path -> entry
    outputPath,  \* the --output flag of the invocation ("" when not given)
    cwd,         \* the working directory ("" when os.Getwd fails)
    now,         \* seconds read by the latest time.Now()
    calls,       \* the WriteImage calls made so far, with what each returned
    preexisting, \* history: the paths that existed when the invocation began
    args,        \* the command line of the invocation: command, arguments, flags
    environ,     \* the environment variables of the process
    run,         \* where the command handler stands: its loop counter and images
    trace,       \* history: the API requests issued and the files written
    exit,        \* the exit status of the process and the error it printed
    conf,        \* the latest call into internal/config and what it returned
    allResults   \* the output.Result list of the command handler

vars == <<pc, req, httpResp, ret, fs, outputPath, cwd, now, calls, preexisting,
          args, environ, run, trace, exit, conf, allResults>>

requestVars == <<pc, req, httpResp, ret>>
writerVars  == <<fs, outputPath, cwd, now, calls, preexisting>>
cliVars     == <<args, environ, run, trace, exit, conf, allResults>>

-----------------------------------------------------------------------------
(* Bounds of the model *)

MaxCandidates == 2     \* candidates in one response
MaxParts      == 2     \* parts in one response, over all its candidates
MaxCalls      == 3     \* WriteImage calls in one invocation
MaxIndex      == 2     \* largest index passed to WriteImage
MaxClock      == 1     \* seconds that pass during one invocation

-----------------------------------------------------------------------------
(* Exit codes, internal/gemini *)

ExitGeneral   == 1
ExitUsage     == 2
ExitAuth      == 3
ExitRateLimit == 4
ExitAPI       == 5
ExitFileIO    == 10

StatusOK == 200

-----------------------------------------------------------------------------
(* strings *)

CharAt(s, i) == SubSeq(s, i, i)

HasPrefix(s, p) == Len(p) <= Len(s) /\ SubSeq(s, 1, Len(p)) = p

HasSuffix(s, p) == Len(p) <= Len(s) /\ SubSeq(s, Len(s) - Len(p) + 1, Len(s)) = p

Contains(s, sub) ==
    \E i \in 1..(Len(s) - Len(sub) + 1) : SubSeq(s, i, i + Len(sub) - 1) = sub

TrimSuffix(s, suffix) ==
    IF HasSuffix(s, suffix) THEN SubSeq(s, 1, Len(s) - Len(suffix)) ELSE s

\* fmt's %d of a non-negative int
Itoa(n) == ToString(n)

-----------------------------------------------------------------------------
(* encoding/base64, StdEncoding (padded, not strict) *)

Base64Alphabet ==
    "ABCDEFGHIJKLMNOPQRSTUVWXYZabcdefghijklmnopqrstuvwxyz0123456789+/"

IsBase64Char(c) == \E i \in 1..64 : CharAt(Base64Alphabet, i) = c

Base64Value(c) == (CHOOSE i \in 1..64 : CharAt(Base64Alphabet, i) = c) - 1

Base64Char(v) == CharAt(Base64Alphabet, v + 1)

\* one quantum of four characters; pad = number of trailing '='
QuantumPad(q) ==
    IF CharAt(q, 4) # "=" THEN 0
    ELSE IF CharAt(q, 3) # "=" THEN 1 ELSE 2

QuantumValid(q, last) ==
    LET pad == QuantumPad(q)
    IN  /\ pad = 0 \/ last
        /\ \A i \in 1..(4 - pad) : IsBase64Char(CharAt(q, i))

QuantumBytes(q) ==
    LET pad == QuantumPad(q)
        v(i) == IF i <= 4 - pad THEN Base64Value(CharAt(q, i)) ELSE 0
        n == v(1) * 262144 + v(2) * 4096 + v(3) * 64 + v(4)
        all == << n \div 65536, (n \div 256) % 256, n % 256 >>
    IN  SubSeq(all, 1, 3 - pad)

RECURSIVE DecodeQuanta(_, _)
DecodeQuanta(s, i) ==
    IF i > Len(s) THEN [ok |-> TRUE, data |-> << >>]
    ELSE LET q == SubSeq(s, i, i + 3)
         IN  IF ~QuantumValid(q, i + 3 = Len(s))
             THEN [ok |-> FALSE, data |-> << >>]
             ELSE LET rest == DecodeQuanta(s, i + 4)
                  IN  IF rest.ok
                      THEN [ok |-> TRUE, data |-> QuantumBytes(q) \o rest.data]
                      ELSE rest

\* base64.StdEncoding.DecodeString: ok = FALSE is a CorruptInputError
DecodeString(s) ==
    IF Len(s) % 4 # 0 THEN [ok |-> FALSE, data |-> << >>]
    ELSE DecodeQuanta(s, 1)

RECURSIVE EncodeToString(_)
EncodeToString(b) ==
    IF Len(b) = 0 THEN ""
    ELSE LET k == IF Len(b) >= 3 THEN 3 ELSE Len(b)
             byte(i) == IF i <= k THEN b[i] ELSE 0
             n == byte(1) * 65536 + byte(2) * 256 + byte(3)
             c1 == Base64Char(n \div 262144)
             c2 == Base64Char((n \div 4096) % 64)
             c3 == IF k >= 2 THEN Base64Char((n \div 64) % 64) ELSE "="
             c4 == IF k >= 3 THEN Base64Char(n % 64) ELSE "="
         IN  c1 \o c2 \o c3 \o c4 \o EncodeToString(SubSeq(b, k + 1, Len(b)))

-----------------------------------------------------------------------------
(* internal/gemini/types.go *)

\* a nil pointer, a nil error
Nil == [nil |-> TRUE]

TextPart(text) == [Text |-> text, InlineData |-> Nil]

InlinePart(mimeType, data) ==
    [Text |-> "", InlineData |-> [MIMEType |-> mimeType, Data |-> data]]

ImageResult(data, mimeType) == [Data |-> data, MIMEType |-> mimeType]

-----------------------------------------------------------------------------
(* errors *)

\* &APIError{StatusCode, Message, ExitCode}
APIError(statusCode, message, exitCode) ==
    [type |-> "*gemini.APIError", StatusCode |-> statusCode,
     Message |-> message, ExitCode |-> exitCode]

\* fmt.Errorf("<prefix>: %w", err): an error that is no *APIError
Errorf(prefix, cause) ==
    [type |-> "*fmt.wrapError", Message |-> prefix \o ": " \o cause]

IsAPIError(err) == err # Nil /\ err.type = "*gemini.APIError"

-----------------------------------------------------------------------------
(* encoding/json: what Unmarshal leaves in the struct it is given.  A body  *)
(* is [json, Candidates, PromptFeedback, ErrorMessage]: json = FALSE is a   *)
(* body that is no JSON document, for which every Unmarshal fails and       *)
(* leaves its target zeroed.                                                *)

UnmarshalGenerateResponse(body) ==
    IF body.json
    THEN [ok |-> TRUE,
          value |-> [Candidates |-> body.Candidates,
                     PromptFeedback |-> body.PromptFeedback]]
    ELSE [ok |-> FALSE,
          value |-> [Candidates |-> << >>, PromptFeedback |-> Nil]]

\* errResp.Error.Message after json.Unmarshal(body, &errResp)
UnmarshalErrorMessage(body) == IF body.json THEN body.ErrorMessage ELSE ""

-----------------------------------------------------------------------------
(* internal/gemini/prompt.go: the classifier and the extractor *)

parseAPIError_NoForbidden(statusCode, body) ==
    LET m   == UnmarshalErrorMessage(body)
        msg == IF m = "" THEN "API error (HTTP " \o Itoa(statusCode) \o ")" ELSE m
    IN  IF statusCode = 401
        THEN APIError(statusCode,
                 "authentication failed: " \o msg
                 \o "\n\nSet GEMINI_API_KEY or run: naba config set api_key <your-key>",
                 ExitAuth)
        ELSE IF statusCode = 429
        THEN APIError(statusCode,
                 "rate limit exceeded: " \o msg \o "\n\nWait a moment and try again.",
                 ExitRateLimit)
        ELSE IF statusCode >= 500
        THEN APIError(statusCode,
                 "Gemini server error: " \o msg
                 \o "\n\nThis is a temporary issue. Try again shortly.",
                 ExitAPI)
        ELSE APIError(statusCode, msg, ExitAPI)

parseAPIError(statusCode, body) ==
    LET m   == UnmarshalErrorMessage(body)
        msg == IF m = "" THEN "API error (HTTP " \o Itoa(statusCode) \o ")" ELSE m
    IN  IF statusCode = 401 \/ statusCode = 403
        THEN APIError(statusCode,
                 "authentication failed: " \o msg
                 \o "\n\nSet GEMINI_API_KEY or run: naba config set api_key <your-key>",
                 ExitAuth)
        ELSE IF statusCode = 429
        THEN APIError(statusCode,
                 "rate limit exceeded: " \o msg \o "\n\nWait a moment and try again.",
                 ExitRateLimit)
        ELSE IF statusCode >= 500
        THEN APIError(statusCode,
                 "Gemini server error: " \o msg
                 \o "\n\nThis is a temporary issue. Try again shortly.",
                 ExitAPI)
        ELSE APIError(statusCode, msg, ExitAPI)

\* collectImages leaving the candidate loop at a candidate without content
RECURSIVE collectImages_BreakOnNilContent(_, _, _, _)
collectImages_BreakOnNilContent(resp, ci, pi, images) ==
    IF ci > Len(resp.Candidates) THEN [ok |-> TRUE, images |-> images]
    ELSE LET candidate == resp.Candidates[ci]
         IN  IF candidate.Content = Nil
             THEN [ok |-> TRUE, images |-> images]
             ELSE IF pi > Len(candidate.Content.Parts)
             THEN collectImages_BreakOnNilContent(resp, ci + 1, 1, images)
             ELSE LET part == candidate.Content.Parts[pi]
                  IN  IF part.InlineData = Nil
                      THEN collectImages_BreakOnNilContent(resp, ci, pi + 1, images)
                      ELSE LET dec == DecodeString(part.InlineData.Data)
                           IN  IF ~dec.ok
                               THEN [ok |-> FALSE, images |-> images]
                               ELSE collectImages_BreakOnNilContent(resp, ci, pi + 1,
                                        Append(images,
                                            ImageResult(dec.data,
                                                part.InlineData.MIMEType)))

\* collectImages skipping a part whose payload does not decode
RECURSIVE collectImages_SkipUndecodable(_, _, _, _)
collectImages_SkipUndecodable(resp, ci, pi, images) ==
    IF ci > Len(resp.Candidates) THEN [ok |-> TRUE, images |-> images]
    ELSE LET candidate == resp.Candidates[ci]
         IN  IF candidate.Content = Nil
             THEN collectImages_SkipUndecodable(resp, ci + 1, 1, images)
             ELSE IF pi > Len(candidate.Content.Parts)
             THEN collectImages_SkipUndecodable(resp, ci + 1, 1, images)
             ELSE LET part == candidate.Content.Parts[pi]
                  IN  IF part.InlineData = Nil
                      THEN collectImages_SkipUndecodable(resp, ci, pi + 1, images)
                      ELSE LET dec == DecodeString(part.InlineData.Data)
                           IN  IF ~dec.ok
                               THEN collectImages_SkipUndecodable(resp, ci, pi + 1,
                                        images)
                               ELSE collectImages_SkipUndecodable(resp, ci, pi + 1,
                                        Append(images,
                                            ImageResult(dec.data,
                                                part.InlineData.MIMEType)))

\* the two loops of extractImages from candidate ci, part pi on, with the
\* images collected so far; ok = FALSE is the decode error's early return
RECURSIVE collectImages(_, _, _, _)
collectImages(resp, ci, pi, images) ==
    IF ci > Len(resp.Candidates) THEN [ok |-> TRUE, images |-> images]
    ELSE LET candidate == resp.Candidates[ci]
         IN  IF candidate.Content = Nil
             THEN collectImages(resp, ci + 1, 1, images)
             ELSE IF pi > Len(candidate.Content.Parts)
             THEN collectImages(resp, ci + 1, 1, images)
             ELSE LET part == candidate.Content.Parts[pi]
                  IN  IF part.InlineData = Nil
                      THEN collectImages(resp, ci, pi + 1, images)
                      ELSE LET dec == DecodeString(part.InlineData.Data)
                           IN  IF ~dec.ok
                               THEN [ok |-> FALSE, images |-> images]
                               ELSE collectImages(resp, ci, pi + 1,
                                        Append(images,
                                            ImageResult(dec.data,
                                                part.InlineData.MIMEType)))

\* extractImages returning an empty list instead of the "no images" error
extractImages_EmptyIsSuccess(resp) ==
    LET r == collectImages(resp, 1, 1, << >>)
    IN  IF ~r.ok
        THEN [images |-> << >>,
              err |-> Errorf("decode image data", "illegal base64 data")]
        ELSE [images |-> r.images, err |-> Nil]

extractImages(resp) ==
    LET r == collectImages(resp, 1, 1, << >>)
    IN  IF ~r.ok
        THEN [images |-> << >>,
              err |-> Errorf("decode image data", "illegal base64 data")]
        ELSE IF Len(r.images) = 0
        THEN [images |-> << >>,
              err |-> APIError(0, "no images in response", ExitAPI)]
        ELSE [images |-> r.images, err |-> Nil]

\* doRequest consulting the block reason only when no image was extracted
doRequest_BlockOnlyWithoutImages(request, outcome) ==
    IF outcome.kind = "newRequestErr"
    THEN [images |-> << >>, err |-> Errorf("create request", "parse url")]
    ELSE IF outcome.kind = "doErr"
    THEN [images |-> << >>, err |-> Errorf("api request failed", "transport")]
    ELSE IF outcome.kind = "readErr"
    THEN [images |-> << >>, err |-> Errorf("read response", "unexpected EOF")]
    ELSE IF outcome.StatusCode # StatusOK
    THEN [images |-> << >>, err |-> parseAPIError(outcome.StatusCode, outcome.body)]
    ELSE LET u == UnmarshalGenerateResponse(outcome.body)
             genResp == u.value
             got == extractImages(genResp)
         IN  IF ~u.ok
             THEN [images |-> << >>,
                   err |-> Errorf("parse response", "invalid character")]
             ELSE IF got.err # Nil
                     /\ genResp.PromptFeedback # Nil
                     /\ genResp.PromptFeedback.BlockReason # ""
             THEN [images |-> << >>,
                   err |-> APIError(0,
                              "prompt blocked: "
                              \o genResp.PromptFeedback.BlockReason,
                              ExitAPI)]
             ELSE got

\* doRequest reading the body before it looks at the status
doRequest_BodyBeforeStatus(request, outcome) ==
    IF outcome.kind = "newRequestErr"
    THEN [images |-> << >>, err |-> Errorf("create request", "parse url")]
    ELSE IF outcome.kind = "doErr"
    THEN [images |-> << >>, err |-> Errorf("api request failed", "transport")]
    ELSE IF outcome.kind = "readErr"
    THEN [images |-> << >>, err |-> Errorf("read response", "unexpected EOF")]
    ELSE LET u == UnmarshalGenerateResponse(outcome.body)
             genResp == u.value
         IN  IF u.ok /\ genResp.PromptFeedback # Nil
                     /\ genResp.PromptFeedback.BlockReason # ""
             THEN [images |-> << >>,
                   err |-> APIError(0,
                              "prompt blocked: "
                              \o genResp.PromptFeedback.BlockReason,
                              ExitAPI)]
             ELSE IF outcome.StatusCode # StatusOK
             THEN [images |-> << >>,
                   err |-> parseAPIError(outcome.StatusCode, outcome.body)]
             ELSE IF ~u.ok
             THEN [images |-> << >>,
                   err |-> Errorf("parse response", "invalid character")]
             ELSE extractImages(genResp)

\* doRequest going on with the zero GenerateResponse when the body of a 200
\* does not parse
doRequest_IgnoreParseError(request, outcome) ==
    IF outcome.kind = "newRequestErr"
    THEN [images |-> << >>, err |-> Errorf("create request", "parse url")]
    ELSE IF outcome.kind = "doErr"
    THEN [images |-> << >>, err |-> Errorf("api request failed", "transport")]
    ELSE IF outcome.kind = "readErr"
    THEN [images |-> << >>, err |-> Errorf("read response", "unexpected EOF")]
    ELSE IF outcome.StatusCode # StatusOK
    THEN [images |-> << >>, err |-> parseAPIError(outcome.StatusCode, outcome.body)]
    ELSE LET genResp == UnmarshalGenerateResponse(outcome.body).value
         IN  IF genResp.PromptFeedback # Nil
                /\ genResp.PromptFeedback.BlockReason # ""
             THEN [images |-> << >>,
                   err |-> APIError(0,
                              "prompt blocked: "
                              \o genResp.PromptFeedback.BlockReason,
                              ExitAPI)]
             ELSE extractImages(genResp)

\* what c.HTTPClient.Do and io.ReadAll deliver for the POST:
\*   kind "newRequestErr": http.NewRequest rejects the URL, nothing is sent
\*   kind "doErr":         timeout, connection refused
\*   kind "readErr":       the body cannot be read
\*   kind "response":      a status and a body
doRequest(request, outcome) ==
    IF outcome.kind = "newRequestErr"
    THEN [images |-> << >>, err |-> Errorf("create request", "parse url")]
    ELSE IF outcome.kind = "doErr"
    THEN [images |-> << >>, err |-> Errorf("api request failed", "transport")]
    ELSE IF outcome.kind = "readErr"
    THEN [images |-> << >>, err |-> Errorf("read response", "unexpected EOF")]
    ELSE IF outcome.StatusCode # StatusOK
    THEN [images |-> << >>, err |-> parseAPIError(outcome.StatusCode, outcome.body)]
    ELSE LET u == UnmarshalGenerateResponse(outcome.body)
             genResp == u.value
         IN  IF ~u.ok
             THEN [images |-> << >>,
                   err |-> Errorf("parse response", "invalid character")]
             ELSE IF genResp.PromptFeedback # Nil
                     /\ genResp.PromptFeedback.BlockReason # ""
             THEN [images |-> << >>,
                   err |-> APIError(0,
                              "prompt blocked: "
                              \o genResp.PromptFeedback.BlockReason,
                              ExitAPI)]
             ELSE extractImages(genResp)

-----------------------------------------------------------------------------
(* path/filepath and strings, on clean slash-separated paths *)

\* filepath.Ext: the suffix from the last dot of the last element on
RECURSIVE ExtFrom(_, _)
ExtFrom(path, i) ==
    IF i < 1 \/ CharAt(path, i) = "/" THEN ""
    ELSE IF CharAt(path, i) = "." THEN SubSeq(path, i, Len(path))
    ELSE ExtFrom(path, i - 1)

Ext(path) == ExtFrom(path, Len(path))

RECURSIVE LastSlash(_, _)
LastSlash(path, i) ==
    IF i < 1 THEN 0
    ELSE IF CharAt(path, i) = "/" THEN i ELSE LastSlash(path, i - 1)

\* filepath.Dir
Dir(path) ==
    LET i == LastSlash(path, Len(path))
    IN  IF i = 0 THEN "."
        ELSE IF i = 1 THEN "/" ELSE SubSeq(path, 1, i - 1)

IsAbs(path) == HasPrefix(path, "/")

UpperLetters == "ABCDEFGHIJKLMNOPQRSTUVWXYZ"
LowerLetters == "abcdefghijklmnopqrstuvwxyz"

LowerChar(c) ==
    IF \E i \in 1..26 : CharAt(UpperLetters, i) = c
    THEN CharAt(LowerLetters, CHOOSE i \in 1..26 : CharAt(UpperLetters, i) = c)
    ELSE c

RECURSIVE ToLower(_)
ToLower(s) ==
    IF s = "" THEN "" ELSE LowerChar(CharAt(s, 1)) \o ToLower(SubSeq(s, 2, Len(s)))

-----------------------------------------------------------------------------
(* the filesystem: a function from the paths that exist to their entries *)

File(data) == [kind |-> "file", data |-> data]

\* a directory; a read-only one refuses new entries
Directory(readonly) == [kind |-> "dir", readonly |-> readonly]

Exists(f, path) == path \in DOMAIN f

IsFile(f, path) == Exists(f, path) /\ f[path].kind = "file"

IsDir(f, path) == path = "." \/ (Exists(f, path) /\ f[path].kind = "dir")

Put(f, path, entry) ==
    [p \in DOMAIN f \cup {path} |-> IF p = path THEN entry ELSE f[p]]

-----------------------------------------------------------------------------
(* internal/gemini/prompt.go: the request builders *)

detectMIMEType(path) ==
    LET ext == ToLower(Ext(path))
    IN  IF ext = ".png" THEN "image/png"
        ELSE IF ext = ".jpg" \/ ext = ".jpeg" THEN "image/jpeg"
        ELSE IF ext = ".gif" THEN "image/gif"
        ELSE IF ext = ".webp" THEN "image/webp"
        ELSE IF ext = ".bmp" THEN "image/bmp"
        ELSE "image/png"

\* (encoded, mimeType, err)
readImageFile(f, path) ==
    IF ~IsFile(f, path)
    THEN [data |-> "", mimeType |-> "",
          err |-> APIError(0,
                     "read image file \"" \o path \o "\": open " \o path
                     \o (IF Exists(f, path) THEN ": is a directory"
                         ELSE ": no such file or directory"),
                     ExitFileIO)]
    ELSE [data |-> EncodeToString(f[path].data),
          mimeType |-> detectMIMEType(path), err |-> Nil]

GenerateRequest(parts) ==
    [Contents |-> << [Role |-> "user", Parts |-> parts] >>,
     GenerationConfig |-> [ResponseModalities |-> << "TEXT", "IMAGE" >>]]

-----------------------------------------------------------------------------
(* what the API may answer *)

Statuses == {200, 204, 401, 403, 404, 429, 499, 500, 503}

PartKinds ==
    { TextPart("I cannot draw that"),
      InlinePart("image/png", "QQ=="),
      InlinePart("image/jpeg", "QUI="),
      InlinePart("image/png", "Q!==") }

\* the sequences of exactly n parts
RECURSIVE PartSeqs(_)
PartSeqs(n) ==
    IF n = 0 THEN { << >> }
    ELSE { Append(ps, p) : ps \in PartSeqs(n - 1), p \in PartKinds }

\* one candidate with k parts; k = -1 is a candidate without content
CandidatesOf(k) ==
    IF k < 0 THEN { [Content |-> Nil] }
    ELSE { [Content |-> [Role |-> "model", Parts |-> ps]] : ps \in PartSeqs(k) }

\* the sequences of exactly n candidates holding at most p parts together
RECURSIVE CandidateSeqs(_, _)
CandidateSeqs(n, p) ==
    IF n = 0 THEN { << >> }
    ELSE UNION { { << c >> \o rest : c \in CandidatesOf(k),
                                     rest \in CandidateSeqs(n - 1,
                                                 IF k < 0 THEN p ELSE p - k) }
                 : k \in -1..p }

Feedbacks == { Nil, [BlockReason |-> ""], [BlockReason |-> "SAFETY"] }

CandidateLists ==
    UNION { CandidateSeqs(n, MaxParts) : n \in 0..MaxCandidates }

ErrorMessages == {"", "quota exceeded"}

\* a body that is no JSON document
NotJSON ==
    [json |-> FALSE, Candidates |-> << >>, PromptFeedback |-> Nil,
     ErrorMessage |-> ""]

\* a JSON object with candidates, promptFeedback and error.message members
JSONBody(candidates, feedback, message) ==
    [json |-> TRUE, Candidates |-> candidates, PromptFeedback |-> feedback,
     ErrorMessage |-> message]

Failure(kind) == [kind |-> kind, StatusCode |-> 0, body |-> NotJSON]

Response(statusCode, body) ==
    [kind |-> "response", StatusCode |-> statusCode, body |-> body]

FailureKinds == {"newRequestErr", "doErr", "readErr"}

Prompts == {"a cat"}

ImagePaths == {"in.JPG", "photos", "missing.png"}

\* the files an edit or restore may be pointed at
InputFiles ==
    [p \in {"in.JPG", "photos"} |->
        IF p = "in.JPG" THEN File(<< 255, 216, 255 >>) ELSE Directory(FALSE)]

-----------------------------------------------------------------------------
(* one call of the client *)

\* no command line is running: the client or the writer is called directly
NoInvocation ==
    /\ args = Nil
    /\ environ = Nil
    /\ run = Nil
    /\ trace = << >>
    /\ exit = Nil
    /\ conf = Nil
    /\ allResults = << >>

InitRequest ==
    /\ pc = "ready"
    /\ req = Nil
    /\ httpResp = Nil
    /\ ret = Nil
    /\ fs = InputFiles
    /\ outputPath = ""
    /\ cwd = "/work"
    /\ now = 0
    /\ calls = << >>
    /\ preexisting = DOMAIN InputFiles
    /\ NoInvocation

\* the POST and its answer: the transport fails, or a status and a body arrive
Delivers(outcome) ==
    \/ \E kind \in FailureKinds : outcome = Failure(kind)
    \/ \E statusCode \in Statuses : outcome = Response(statusCode, NotJSON)
    \/ \E statusCode \in Statuses, candidates \in CandidateLists,
          feedback \in Feedbacks, message \in ErrorMessages :
          outcome = Response(statusCode, JSONBody(candidates, feedback, message))

\* Client.Generate
Generate(prompt) ==
    /\ pc = "ready"
    /\ req' = GenerateRequest(<< TextPart(prompt) >>)
    /\ Delivers(httpResp')
    /\ ret' = doRequest(req', httpResp')
    /\ pc' = "done"
    /\ UNCHANGED writerVars
    /\ UNCHANGED cliVars

\* Client.GenerateWithImage
GenerateWithImage(prompt, imagePath) ==
    /\ pc = "ready"
    /\ LET img == readImageFile(fs, imagePath)
       IN  IF img.err # Nil
           THEN /\ ret' = [images |-> << >>, err |-> img.err]
                /\ UNCHANGED << req, httpResp >>
           ELSE /\ req' = GenerateRequest(<< TextPart(prompt),
                                             InlinePart(img.mimeType, img.data) >>)
                /\ Delivers(httpResp')
                /\ ret' = doRequest(req', httpResp')
    /\ pc' = "done"
    /\ UNCHANGED writerVars
    /\ UNCHANGED cliVars

NextRequest ==
    \/ \E prompt \in Prompts : Generate(prompt)
    \/ \E prompt \in Prompts, imagePath \in ImagePaths :
          GenerateWithImage(prompt, imagePath)

SpecRequest == InitRequest /\ [][NextRequest]_vars

-----------------------------------------------------------------------------
(* os: Stat, MkdirAll, WriteFile, and filepath.Abs *)

\* os.IsNotExist(err) of os.Stat(path): ENOENT, not the ENOTDIR of a path
\* below a regular file
StatNotExist(f, path) == ~Exists(f, path) /\ ~IsFile(f, Dir(path))

Writable(f, dir) == dir = "." \/ (IsDir(f, dir) /\ ~f[dir].readonly)

RECURSIVE MkdirAll(_, _)
MkdirAll(f, dir) ==
    IF IsDir(f, dir) THEN [ok |-> TRUE, fs |-> f]
    ELSE IF Exists(f, dir) THEN [ok |-> FALSE, fs |-> f]
    ELSE LET up == MkdirAll(f, Dir(dir))
         IN  IF ~up.ok THEN up
             ELSE IF ~Writable(up.fs, Dir(dir)) THEN [ok |-> FALSE, fs |-> up.fs]
             ELSE [ok |-> TRUE, fs |-> Put(up.fs, dir, Directory(FALSE))]

\* os.WriteFile: create or truncate, then write
WriteFile(f, name, data) ==
    IF IsFile(f, name) THEN [ok |-> TRUE, fs |-> Put(f, name, File(data))]
    ELSE IF Exists(f, name) \/ ~Writable(f, Dir(name)) THEN [ok |-> FALSE, fs |-> f]
    ELSE [ok |-> TRUE, fs |-> Put(f, name, File(data))]

\* filepath.Abs; wd = "" is a failing os.Getwd
Abs(wd, path) ==
    IF IsAbs(path) THEN [ok |-> TRUE, path |-> path]
    ELSE IF wd = "" THEN [ok |-> FALSE, path |-> ""]
    ELSE [ok |-> TRUE, path |-> wd \o "/" \o path]

-----------------------------------------------------------------------------
(* internal/output/writer.go *)

DedupLimit == 1000

\* mimeTypeToExt taking the extension from the subtype of image/jpeg
mimeTypeToExt_SubtypeOfJPEG(mimeType) ==
    IF mimeType = "image/png" THEN ".png"
    ELSE IF mimeType = "image/jpeg" THEN ".jpeg"
    ELSE IF mimeType = "image/gif" THEN ".gif"
    ELSE IF mimeType = "image/webp" THEN ".webp"
    ELSE ".png"

mimeTypeToExt(mimeType) ==
    IF mimeType = "image/png" THEN ".png"
    ELSE IF mimeType = "image/jpeg" THEN ".jpg"
    ELSE IF mimeType = "image/gif" THEN ".gif"
    ELSE IF mimeType = "image/webp" THEN ".webp"
    ELSE ".png"

Pad2(n) == IF n < 10 THEN "0" \o Itoa(n) ELSE Itoa(n)

\* time.Now().Format("20060102-150405"), t seconds into the day
Timestamp(t) ==
    "20250101-" \o Pad2((t \div 3600) % 24) \o Pad2((t \div 60) % 60) \o Pad2(t % 60)

generateFilename(command, mimeType, index, t) ==
    LET ext == mimeTypeToExt(mimeType)
        ts  == Timestamp(t)
    IN  IF index > 0
        THEN "naba-" \o command \o "-" \o ts \o "-" \o Itoa(index + 1) \o ext
        ELSE "naba-" \o command \o "-" \o ts \o ext

\* fmt.Sprintf("%s-%d%s", base, n, ext)
Suffixed(base, n, ext) == base \o "-" \o Itoa(n) \o ext

\* dedupLoop counting its candidates from 0
dedupLoop_FromZero(f, path, base, ext) ==
    LET free(i) == StatNotExist(f, Suffixed(base, i, ext))
    IN  IF \E i \in 0..(DedupLimit - 1) : free(i)
        THEN Suffixed(base,
                 CHOOSE i \in 0..(DedupLimit - 1) :
                     free(i) /\ \A j \in 0..(i - 1) : ~free(j),
                 ext)
        ELSE path

\* dedupLoop settling on its last candidate when every candidate exists
dedupLoop_KeepLastCandidate(f, path, base, ext) ==
    LET free(i) == StatNotExist(f, Suffixed(base, i, ext))
    IN  IF \E i \in 1..(DedupLimit - 1) : free(i)
        THEN Suffixed(base,
                 CHOOSE i \in 1..(DedupLimit - 1) :
                     free(i) /\ \A j \in 1..(i - 1) : ~free(j),
                 ext)
        ELSE Suffixed(base, DedupLimit - 1, ext)

\* the loop of dedup: the candidate of the first i in 1..DedupLimit-1 whose
\* candidate does not exist, and path when the loop runs out
dedupLoop(f, path, base, ext) ==
    LET free(i) == StatNotExist(f, Suffixed(base, i, ext))
    IN  IF \E i \in 1..(DedupLimit - 1) : free(i)
        THEN Suffixed(base,
                 CHOOSE i \in 1..(DedupLimit - 1) :
                     free(i) /\ \A j \in 1..(i - 1) : ~free(j),
                 ext)
        ELSE path

dedup(f, path) ==
    IF StatNotExist(f, path) THEN path
    ELSE LET ext  == Ext(path)
             base == TrimSuffix(path, ext)
         IN  dedupLoop(f, path, base, ext)

\* resolvePath numbering the outputs from the index itself
resolvePath_PlainIndex(outPath, mimeType, command, index, t) ==
    IF outPath = "" THEN generateFilename(command, mimeType, index, t)
    ELSE IF index > 0
    THEN LET ext  == Ext(outPath)
             base == TrimSuffix(outPath, ext)
         IN  Suffixed(base, index, ext)
    ELSE outPath

\* the path WriteImage settles on before it looks at the disk
resolvePath(outPath, mimeType, command, index, t) ==
    IF outPath = "" THEN generateFilename(command, mimeType, index, t)
    ELSE IF index > 0
    THEN LET ext  == Ext(outPath)
             base == TrimSuffix(outPath, ext)
         IN  Suffixed(base, index + 1, ext)
    ELSE outPath

\* WriteImage writing to the resolved path without calling dedup
WriteImage_NoDedup(f, wd, t, data, mimeType, outPath, command, index) ==
    LET resolved == resolvePath(outPath, mimeType, command, index, t)
        dir      == Dir(resolved)
        made     == IF dir # "." /\ dir # "" THEN MkdirAll(f, dir)
                    ELSE [ok |-> TRUE, fs |-> f]
        target   == resolved
        wrote    == WriteFile(made.fs, target, data)
        abs      == Abs(wd, target)
    IN  IF ~made.ok
        THEN [path |-> "", written |-> "", fs |-> made.fs,
              err |-> Errorf("create output directory", "mkdir " \o dir)]
        ELSE IF ~wrote.ok
        THEN [path |-> "", written |-> "", fs |-> wrote.fs,
              err |-> Errorf("write image", "open " \o target)]
        ELSE [path |-> IF abs.ok THEN abs.path ELSE target,
              written |-> target, fs |-> wrote.fs, err |-> Nil]

\* WriteImage on filesystem f at time t in directory wd: the path and error
\* it returns, the name it handed to os.WriteFile, and the filesystem after
WriteImage(f, wd, t, data, mimeType, outPath, command, index) ==
    LET resolved == resolvePath(outPath, mimeType, command, index, t)
        dir      == Dir(resolved)
        made     == IF dir # "." /\ dir # "" THEN MkdirAll(f, dir)
                    ELSE [ok |-> TRUE, fs |-> f]
        target   == dedup(made.fs, resolved)
        wrote    == WriteFile(made.fs, target, data)
        abs      == Abs(wd, target)
    IN  IF ~made.ok
        THEN [path |-> "", written |-> "", fs |-> made.fs,
              err |-> Errorf("create output directory", "mkdir " \o dir)]
        ELSE IF ~wrote.ok
        THEN [path |-> "", written |-> "", fs |-> wrote.fs,
              err |-> Errorf("write image", "open " \o target)]
        ELSE [path |-> IF abs.ok THEN abs.path ELSE target,
              written |-> target, fs |-> wrote.fs, err |-> Nil]

-----------------------------------------------------------------------------
(* the images one invocation writes *)

Commands == {"generate"}

MimeTypes == {"image/png", "image/jpeg"}

\* the k-th image of an invocation: a payload of its own
Payload(k) == << 64 + k >>

Old == File(<< 1 >>)

FilesOf(names, dirs, rodirs) ==
    [p \in names \cup dirs \cup rodirs |->
        IF p \in names THEN Old ELSE Directory(p \in rodirs)]

EmptyDisk == FilesOf({}, {}, {})

\* foo.png and the name of its second output taken; out is a regular file
Crowded == FilesOf({"foo.png", "foo-2.png", "out", "o.d/foo"}, {"o.d"}, {})

\* the first suffixed name taken; out is a read-only directory
Guarded == FilesOf({"foo-1.png", "out/foo.png"}, {}, {"out"})

\* path and each of its DedupLimit-1 suffixed names taken
Saturated(path) ==
    FilesOf({path} \cup { Suffixed(TrimSuffix(path, Ext(path)), i, Ext(path)) :
                            i \in 1..(DedupLimit - 1) }, {}, {})

Scenario(disk, out, wd) == [fs |-> disk, outputPath |-> out, cwd |-> wd]

\* the disks, --output values and working directories an invocation starts in
Scenarios ==
    { Scenario(EmptyDisk, "foo.png", "/work"),
      Scenario(EmptyDisk, "", "/work"),
      Scenario(EmptyDisk, "out/foo.png", ""),
      Scenario(EmptyDisk, "o.d/foo", "/work"),
      Scenario(Crowded, "foo.png", "/work"),
      Scenario(Crowded, "out/foo.png", "/work"),
      Scenario(Crowded, "o.d/foo", "/work"),
      Scenario(Guarded, "foo.png", ""),
      Scenario(Guarded, "out/foo.png", "/work"),
      Scenario(Saturated("foo.png"), "foo.png", "/work") }

InitWriter ==
    /\ pc = "ready"
    /\ req = Nil
    /\ httpResp = Nil
    /\ ret = Nil
    /\ \E sc \in Scenarios :
          /\ fs = sc.fs
          /\ outputPath = sc.outputPath
          /\ cwd = sc.cwd
    /\ now = 0
    /\ calls = << >>
    /\ preexisting = DOMAIN fs
    /\ NoInvocation

Failed == \E i \in 1..Len(calls) : calls[i].err # Nil

\* one output.WriteImage call of the command, for its next image
WriteImageCall(mimeType, command, index) ==
    /\ Len(calls) < MaxCalls
    /\ ~Failed
    /\ IF outputPath = ""
       THEN \E t \in now..(IF now < MaxClock THEN now + 1 ELSE now) : now' = t
       ELSE UNCHANGED now
    /\ LET data == Payload(Len(calls) + 1)
           w == WriteImage(fs, cwd, now', data, mimeType, outputPath, command, index)
       IN  /\ fs' = w.fs
           /\ calls' = Append(calls,
                          [index |-> index, data |-> data, mimeType |-> mimeType,
                           out |-> outputPath, unit |-> 0, path |-> w.path,
                           written |-> w.written, err |-> w.err])
    /\ UNCHANGED << outputPath, cwd, preexisting >>
    /\ UNCHANGED requestVars
    /\ UNCHANGED cliVars

NextWriter ==
    \E mimeType \in MimeTypes, command \in Commands, index \in 0..MaxIndex :
        WriteImageCall(mimeType, command, index)

SpecWriter == InitWriter /\ [][NextWriter]_vars

-----------------------------------------------------------------------------
(* Properties of the classifier and the extractor, under SpecRequest *)

\* the client call returned after a status and a body arrived
Answered == pc = "done" /\ httpResp # Nil /\ httpResp.kind = "response"

\* the status is 200 and the body unmarshals into a GenerateResponse
Parsed200 == Answered /\ httpResp.StatusCode = 200 /\ httpResp.body.json

BlockReasonOf(body) ==
    IF body.PromptFeedback = Nil THEN "" ELSE body.PromptFeedback.BlockReason

\* the response went on to extractImages
Extracted == Parsed200 /\ BlockReasonOf(httpResp.body) = ""

PartsOf(candidate) ==
    IF candidate.Content = Nil THEN << >> ELSE candidate.Content.Parts

\* <<candidate, part>> of every inline-data part of the body
InlinePositions(body) ==
    UNION { { << c, p >> : p \in { q \in 1..Len(PartsOf(body.Candidates[c])) :
                                     PartsOf(body.Candidates[c])[q].InlineData # Nil } }
            : c \in 1..Len(body.Candidates) }

InlineAt(body, pos) == PartsOf(body.Candidates[pos[1]])[pos[2]].InlineData

Before(a, b) == a[1] < b[1] \/ (a[1] = b[1] /\ a[2] <= b[2])

\* the place of an inline-data part in candidate order, then part order
Rank(body, pos) ==
    Cardinality({ q \in InlinePositions(body) : Before(q, pos) })

AllDecodable(body) ==
    \A pos \in InlinePositions(body) : DecodeString(InlineAt(body, pos).Data).ok

\* C1: a 200 response whose body parses and carries a non-empty block reason
\* yields no images and the APIError {StatusCode 0, ExitCode api,
\* "prompt blocked: <reason>"}, whatever its candidates hold.
C1_PromptBlocked ==
    (Parsed200 /\ BlockReasonOf(httpResp.body) # "")
    => /\ ret.images = << >>
       /\ ret.err # Nil
       /\ ret.err.type = "*gemini.APIError"
       /\ ret.err.ExitCode = ExitAPI
       /\ ret.err.StatusCode = 0
       /\ ret.err.Message = "prompt blocked: " \o BlockReasonOf(httpResp.body)

\* a blocked 200 response whose candidates carry a decodable inline image
C1_Witness ==
    /\ Parsed200
    /\ BlockReasonOf(httpResp.body) = "SAFETY"
    /\ InlinePositions(httpResp.body) # {}
    /\ AllDecodable(httpResp.body)
    /\ ret.err # Nil
    /\ ret.err.Message = "prompt blocked: SAFETY"

ExpectedExitCode(status) ==
    CASE status \in {401, 403} -> ExitAuth
      [] status = 429          -> ExitRateLimit
      [] OTHER                 -> ExitAPI

\* C2: for every non-200 status s and any body the error is an APIError with
\* StatusCode s and exit code auth for 401/403, rate-limit for 429, api for
\* s >= 500 and api for every other status.
C2_StatusToExitCode ==
    (Answered /\ httpResp.StatusCode # 200)
    => /\ ret.err # Nil
       /\ ret.err.type = "*gemini.APIError"
       /\ ret.err.StatusCode = httpResp.StatusCode
       /\ ret.err.ExitCode = ExpectedExitCode(httpResp.StatusCode)

C2_Witness ==
    /\ Answered
    /\ httpResp.StatusCode = 403
    /\ ~httpResp.body.json
    /\ ret.err # Nil
    /\ ret.err.ExitCode = ExitAuth

\* C3: for a non-200 status the result is the status-derived APIError whatever
\* the body holds: no images, and never the "prompt blocked" error.
C3_StatusBeforeBody ==
    (Answered /\ httpResp.StatusCode # 200)
    => /\ ret.images = << >>
       /\ ret.err # Nil
       /\ ret.err.type = "*gemini.APIError"
       /\ ret.err.StatusCode = httpResp.StatusCode
       /\ ~Contains(ret.err.Message, "prompt blocked")

\* a non-200 response whose body is a blocked success response with an image
C3_Witness ==
    /\ Answered
    /\ httpResp.StatusCode = 500
    /\ httpResp.body.json
    /\ BlockReasonOf(httpResp.body) = "SAFETY"
    /\ InlinePositions(httpResp.body) # {}
    /\ AllDecodable(httpResp.body)
    /\ ret.err # Nil
    /\ HasPrefix(ret.err.Message, "Gemini server error")

\* C4: when the response has an inline-data part and every inline payload is
\* valid base64, extraction returns one ImageResult for each inline-data part,
\* in candidate order and then part order, with the decoded bytes and the MIME
\* type of its part.
C4_OneImagePerInlinePart ==
    (Extracted /\ InlinePositions(httpResp.body) # {} /\ AllDecodable(httpResp.body))
    => /\ ret.err = Nil
       /\ Len(ret.images) = Cardinality(InlinePositions(httpResp.body))
       /\ \A pos \in InlinePositions(httpResp.body) :
             LET img == ret.images[Rank(httpResp.body, pos)]
                 inl == InlineAt(httpResp.body, pos)
             IN  /\ img.Data = DecodeString(inl.Data).data
                 /\ img.MIMEType = inl.MIMEType

\* a candidate without content, then a candidate with an image
C4_Witness ==
    /\ Extracted
    /\ Len(httpResp.body.Candidates) = 2
    /\ httpResp.body.Candidates[1].Content = Nil
    /\ ret.err = Nil
    /\ ret.images = << ImageResult(<< 65, 66 >>, "image/jpeg") >>

\* C5: when every candidate is content-less or text-only (or there is no
\* candidate) extraction fails with an APIError of exit code api whose message
\* contains "no images in response".
C5_NoImages ==
    (Extracted /\ InlinePositions(httpResp.body) = {})
    => /\ ret.images = << >>
       /\ ret.err # Nil
       /\ ret.err.type = "*gemini.APIError"
       /\ ret.err.ExitCode = ExitAPI
       /\ Contains(ret.err.Message, "no images in response")

\* a candidate without content and a text-only candidate
C5_Witness ==
    /\ Extracted
    /\ Len(httpResp.body.Candidates) = 2
    /\ httpResp.body.Candidates[1].Content = Nil
    /\ Len(PartsOf(httpResp.body.Candidates[2])) = 1
    /\ InlinePositions(httpResp.body) = {}
    /\ ret.err # Nil
    /\ ret.err.Message = "no images in response"

\* C6: when some inline payload is not valid base64, extraction fails with a
\* message containing "decode image data" and returns no images, also none of
\* those decoded before the bad part.
C6_DecodeFailure ==
    (Extracted /\ ~AllDecodable(httpResp.body))
    => /\ ret.images = << >>
       /\ ret.err # Nil
       /\ Contains(ret.err.Message, "decode image data")

\* a decodable image in the part before the undecodable one
C6_Witness ==
    /\ Extracted
    /\ \E pos \in InlinePositions(httpResp.body),
          bad \in InlinePositions(httpResp.body) :
          /\ pos # bad
          /\ Before(pos, bad)
          /\ DecodeString(InlineAt(httpResp.body, pos).Data).ok
          /\ ~DecodeString(InlineAt(httpResp.body, bad).Data).ok
    /\ ret.images = << >>
    /\ ret.err # Nil

-----------------------------------------------------------------------------
(* Properties of the output writer, under SpecWriter *)

BaseOf(path) == TrimSuffix(path, Ext(path))

\* base-k+ext of a path
Numbered(path, k) == BaseOf(path) \o "-" \o Itoa(k) \o Ext(path)

\* the name WriteImage starts from for the requested path and an index
Requested(index) ==
    IF index = 0 THEN outputPath ELSE Numbered(outputPath, index + 1)

Succeeded == \A i \in 1..Len(calls) : calls[i].err = Nil

\* the paths dedup is asked about: the names of the requested path, or the
\* names written so far when the names are generated
Probes ==
    IF outputPath = ""
    THEN { calls[i].written : i \in { j \in 1..Len(calls) : calls[j].err = Nil } }
    ELSE { Requested(index) : index \in 0..MaxIndex }

SomeSuffixFree(f, path) ==
    \E k \in 1..(DedupLimit - 1) : Numbered(path, k) \notin DOMAIN f

DedupContract(f, path) ==
    LET r == dedup(f, path)
    IN  /\ path \notin DOMAIN f => r = path
        /\ (path \in DOMAIN f /\ SomeSuffixFree(f, path))
           => \E k \in 1..(DedupLimit - 1) :
                 /\ r = Numbered(path, k)
                 /\ r \notin DOMAIN f
                 /\ \A j \in 1..(k - 1) : Numbered(path, j) \in DOMAIN f

\* a WriteImage step that wrote over a file that was there before it
WroteOverExisting ==
    /\ Len(calls') = Len(calls) + 1
    /\ calls'[Len(calls')].err = Nil
    /\ calls'[Len(calls')].written \in DOMAIN fs

\* C7: dedup returns a path nothing exists at unchanged, and for a path that
\* exists the name with the smallest suffix k in 1..999 that does not exist;
\* so WriteImage writes over an existing file only when the path and all of
\* its 999 suffixed names exist.
C7_DedupLowestFreeSuffix ==
    /\ [](\A path \in Probes : DedupContract(fs, path))
    /\ [][WroteOverExisting
          => ~SomeSuffixFree(fs, calls'[Len(calls')].written)]_vars

\* dedup passed over two taken names: foo.png and foo-1.png existed, and the
\* write went to foo-2.png
C7_Witness ==
    /\ outputPath = "foo.png"
    /\ preexisting = {}
    /\ Len(calls) = 3
    /\ calls[3].index = 0
    /\ calls[3].written = "foo-2.png"
    /\ dedup(fs, "foo.png") = "foo-3.png"

\* C8: repeated calls with the same requested path and index 0, the path
\* absent at the start, return pairwise distinct paths; the first keeps the
\* requested name, each later one gets the lowest free numeric suffix, and
\* every file holds the payload of the call that created it.
C8_RepeatedWritesKeepEveryFile ==
    (/\ outputPath # ""
     /\ outputPath \notin preexisting
     /\ Succeeded
     /\ \A i \in 1..Len(calls) : calls[i].index = 0)
    => /\ \A i, j \in 1..Len(calls) : i # j => calls[i].path # calls[j].path
       /\ \A i \in 1..Len(calls) :
             LET taken == preexisting \cup { calls[j].written : j \in 1..(i - 1) }
             IN  /\ i = 1 => calls[i].written = outputPath
                 /\ i > 1 =>
                       \E k \in 1..(DedupLimit - 1) :
                          /\ calls[i].written = Numbered(outputPath, k)
                          /\ calls[i].written \notin taken
                          /\ \A m \in 1..(k - 1) : Numbered(outputPath, m) \in taken
                 /\ fs[calls[i].written] = File(calls[i].data)
                 /\ calls[i].path
                       = (IF cwd = "" THEN calls[i].written
                          ELSE cwd \o "/" \o calls[i].written)

\* three writes to foo.png where foo-1.png was there before: the second call
\* is moved past it
C8_Witness ==
    /\ outputPath = "foo.png"
    /\ preexisting = DOMAIN Guarded
    /\ Len(calls) = 3
    /\ \A i \in 1..3 : calls[i].index = 0 /\ calls[i].err = Nil
    /\ calls[1].written = "foo.png"
    /\ calls[2].written = "foo-2.png"
    /\ calls[3].written = "foo-3.png"
    /\ fs["foo.png"] = File(Payload(1))
    /\ fs["foo-1.png"] = Old

\* the requested path and each of its 999 suffixed names are regular files
\* from the start
FullFromStart ==
    /\ outputPath # ""
    /\ Cardinality(preexisting) >= DedupLimit
    /\ outputPath \in preexisting
    /\ \A k \in 1..(DedupLimit - 1) : Numbered(outputPath, k) \in preexisting
    /\ IsFile(fs, outputPath)

IndexZeroCalls == { i \in 1..Len(calls) : calls[i].index = 0 }

\* C9: when the resolved path and each of its 999 suffixed names exist, the
\* call succeeds, returns the path itself and leaves the new data in that file.
C9_FullDirectoryOverwrites ==
    FullFromStart
    => /\ \A i \in IndexZeroCalls :
             /\ calls[i].err = Nil
             /\ calls[i].written = outputPath
             /\ calls[i].path = cwd \o "/" \o outputPath
       /\ IndexZeroCalls # {}
          => fs[outputPath]
                = File(calls[CHOOSE i \in IndexZeroCalls :
                                \A j \in IndexZeroCalls : j <= i].data)

\* the old content of foo.png was replaced
C9_Witness ==
    /\ FullFromStart
    /\ Len(calls) = 1
    /\ calls[1].index = 0
    /\ calls[1].err = Nil
    /\ calls[1].written = "foo.png"
    /\ fs["foo.png"] = File(Payload(1))
    /\ fs["foo.png"] # Old

\* the i-th call of the invocation has index i-1
IndexesInOrder == \A i \in 1..Len(calls) : calls[i].index = i - 1

NamesByIndex ==
    \A i \in 1..Len(calls) :
       /\ calls[i].written
             = (IF i = 1 THEN outputPath ELSE Numbered(outputPath, i))
       /\ fs[calls[i].written] = File(calls[i].data)

\* C10 as stated: writing N images with index 0..N-1 against a requested path
\* produces path, base-2+ext, ..., base-N+ext.
C10_AsStated ==
    (outputPath # "" /\ Succeeded /\ IndexesInOrder) => NamesByIndex

\* C10, amended: the same, provided none of these names exists before the
\* writes.
C10_NamesByIndexOnFreeNames ==
    (/\ outputPath # ""
     /\ Succeeded
     /\ IndexesInOrder
     /\ \A i \in 1..Len(calls) : Requested(i - 1) \notin preexisting)
    => NamesByIndex

C10_Witness ==
    /\ outputPath = "foo.png"
    /\ preexisting = {}
    /\ Len(calls) = 3
    /\ IndexesInOrder
    /\ calls[1].written = "foo.png"
    /\ calls[2].written = "foo-2.png"
    /\ calls[3].written = "foo-3.png"
    /\ DOMAIN fs = {"foo.png", "foo-2.png", "foo-3.png"}

-----------------------------------------------------------------------------
(* gopkg.in/yaml.v3, as far as a Config goes through it *)

Digits == "0123456789"

IsInt(s) ==
    s # "" /\ \A i \in 1..Len(s) : \E d \in 1..10 : CharAt(Digits, d) = CharAt(s, i)

\* the tag a plain (unquoted) scalar resolves to
resolve(text) ==
    IF text \in {"", "~", "null", "Null", "NULL"} THEN "!!null"
    ELSE IF text \in {"true", "True", "TRUE", "false", "False", "FALSE"}
    THEN "!!bool"
    ELSE IF IsInt(text) THEN "!!int"
    ELSE "!!str"

\* the YAML 1.1 booleans, which the encoder keeps quoted
isOldBool(s) ==
    s \in {"y", "Y", "yes", "Yes", "YES", "on", "On", "ON",
           "n", "N", "no", "No", "NO", "off", "Off", "OFF"}

\* text the emitter cannot write as a plain scalar
NeedsQuotes(s) ==
    \/ HasPrefix(s, " ") \/ HasSuffix(s, " ")
    \/ Contains(s, ": ") \/ Contains(s, " #")
    \/ HasPrefix(s, "#") \/ HasPrefix(s, "- ") \/ HasSuffix(s, ":")

Scalar(style, text) == [style |-> style, text |-> text]

\* the encoder writing every string as a plain scalar
encodeString_AlwaysPlain(s) == Scalar("plain", s)

\* the encoder: a string is written plain only when it reads back as itself
encodeString(s) ==
    IF resolve(s) = "!!str" /\ ~isOldBool(s) /\ ~NeedsQuotes(s)
    THEN Scalar("plain", s)
    ELSE Scalar("double-quoted", s)

\* the decoder filling a string field that holds old: a null leaves it alone
decodeString(scalar, old) ==
    IF scalar.style = "plain" /\ resolve(scalar.text) = "!!null" THEN old
    ELSE scalar.text

-----------------------------------------------------------------------------
(* internal/config *)

configFileName == "config.yaml"

Config(apiKey, model, defaultOutputDir) ==
    [APIKey |-> apiKey, Model |-> model, DefaultOutputDir |-> defaultOutputDir]

ZeroConfig == Config("", "", "")

ValidKeys == << "api_key", "model", "default_output_dir" >>

\* Config.Get
Get(c, key) ==
    IF key = "api_key" THEN c.APIKey
    ELSE IF key = "model" THEN c.Model
    ELSE IF key = "default_output_dir" THEN c.DefaultOutputDir
    ELSE ""

\* Config.Set: whether the key is known, and the config afterwards
Set(c, key, value) ==
    IF key = "api_key" THEN [ok |-> TRUE, cfg |-> [c EXCEPT !.APIKey = value]]
    ELSE IF key = "model" THEN [ok |-> TRUE, cfg |-> [c EXCEPT !.Model = value]]
    ELSE IF key = "default_output_dir"
    THEN [ok |-> TRUE, cfg |-> [c EXCEPT !.DefaultOutputDir = value]]
    ELSE [ok |-> FALSE, cfg |-> c]

\* a YAML document: a mapping of keys to scalars, or text that is no YAML
Document(entries) == [yaml |-> TRUE, entries |-> entries]

Malformed == [yaml |-> FALSE, entries |-> << >>]

Entry(key, value) == [key |-> key, value |-> value]

\* yaml.Marshal(cfg): the fields in order, the empty ones left out (omitempty)
Marshal(c) ==
    Document(SelectSeq(<< Entry("api_key", encodeString(c.APIKey)),
                          Entry("model", encodeString(c.Model)),
                          Entry("default_output_dir",
                                encodeString(c.DefaultOutputDir)) >>,
                       LAMBDA e : e.value.text # ""))

RECURSIVE UnmarshalEntries(_, _, _)
UnmarshalEntries(entries, i, c) ==
    IF i > Len(entries) THEN c
    ELSE LET e == entries[i]
             known == Set(c, e.key, decodeString(e.value, Get(c, e.key)))
         IN  UnmarshalEntries(entries, i + 1, known.cfg)

\* yaml.Unmarshal(data, cfg): keys that are no field of Config are ignored
Unmarshal(data, c) ==
    IF ~data.yaml THEN [ok |-> FALSE, cfg |-> c]
    ELSE [ok |-> TRUE, cfg |-> UnmarshalEntries(data.entries, 1, c)]

\* filepath.Join of two clean elements
Join(dir, name) == IF dir = "" THEN name ELSE dir \o "/" \o name

ConfigDir(env) ==
    IF env.NBA_CONFIG_DIR # "" THEN env.NBA_CONFIG_DIR
    ELSE Join(Join(env.HOME, ".config"), "nba")

ConfigPath(env) == Join(ConfigDir(env), configFileName)

\* an error of the os or yaml package: it carries no exit code
PlainError(message) == [type |-> "*errors.errorString", Message |-> message]

\* Load: (cfg, err); cfg is nil when err is not
Load(f, env) ==
    LET path == ConfigPath(env)
    IN  IF ~IsFile(f, path)
        THEN IF StatNotExist(f, path) THEN [cfg |-> ZeroConfig, err |-> Nil]
             ELSE [cfg |-> Nil, err |-> PlainError("read " \o path)]
        ELSE LET u == Unmarshal(f[path].data, ZeroConfig)
             IN  IF ~u.ok THEN [cfg |-> Nil, err |-> PlainError("yaml: invalid")]
                 ELSE [cfg |-> u.cfg, err |-> Nil]

\* Save: the error, and the filesystem afterwards
Save(f, env, c) ==
    LET dir   == ConfigDir(env)
        made  == MkdirAll(f, dir)
        wrote == WriteFile(made.fs, ConfigPath(env), Marshal(c))
    IN  IF ~made.ok THEN [err |-> PlainError("mkdir " \o dir), fs |-> made.fs]
        ELSE IF ~wrote.ok
        THEN [err |-> PlainError("open " \o ConfigPath(env)), fs |-> wrote.fs]
        ELSE [err |-> Nil, fs |-> wrote.fs]

\* ResolveAPIKey ignoring the environment variable
ResolveAPIKey_ConfigOnly(f, env) ==
    LET loaded == Load(f, env)
    IN  IF loaded.err # Nil THEN "" ELSE loaded.cfg.APIKey

ResolveAPIKey(f, env) ==
    IF env.GEMINI_API_KEY # "" THEN env.GEMINI_API_KEY
    ELSE LET loaded == Load(f, env)
         IN  IF loaded.err # Nil THEN "" ELSE loaded.cfg.APIKey

-----------------------------------------------------------------------------
(* internal/cli: errors with an exit code, and cmd/nba/main.go *)

\* exitError(code, msg): an *exitCodeError
exitError(code, msg) ==
    [type |-> "*cli.exitCodeError", code |-> code, message |-> msg]

\* err.Error()
ErrorText(err) ==
    IF err.type = "*cli.exitCodeError" THEN err.message ELSE err.Message

\* handleAPIError reporting an error that is no *APIError as an API failure
handleAPIError_PlainIsAPI(err) ==
    IF IsAPIError(err) THEN exitError(err.ExitCode, err.Message)
    ELSE exitError(ExitAPI, ErrorText(err))

handleAPIError(err) ==
    IF IsAPIError(err) THEN exitError(err.ExitCode, err.Message)
    ELSE exitError(ExitGeneral, ErrorText(err))

\* err.(interface{ ExitCode() int }): only *exitCodeError has the method
HasExitCode(err) == err.type = "*cli.exitCodeError"

\* main: the status handed to os.Exit and the error printed; 0 on success
main(err) ==
    IF err = Nil THEN [status |-> 0, err |-> Nil, panic |-> FALSE]
    ELSE [status |-> IF HasExitCode(err) THEN err.code ELSE 1,
          err |-> err, panic |-> FALSE]

\* an unrecovered panic: the Go runtime prints the trace and exits with 2
Panic == [status |-> 2, err |-> Nil, panic |-> TRUE]

-----------------------------------------------------------------------------
(* internal/cli/config.go: config set *)

\* the command saving what it loaded before it looks at the key
configSet_SaveBeforeSet(f, env, key, value) ==
    LET loaded == Load(f, env)
    IN  IF loaded.err # Nil
        THEN [err |-> exitError(ExitGeneral,
                         "load config: " \o loaded.err.Message), fs |-> f]
        ELSE LET set == Set(loaded.cfg, key, value)
                 saved == Save(f, env, set.cfg)
             IN  IF ~set.ok
                 THEN [err |-> exitError(ExitUsage,
                                  "unknown key \"" \o key \o "\""),
                       fs |-> saved.fs]
                 ELSE IF saved.err # Nil
                 THEN [err |-> exitError(ExitFileIO,
                                  "save config: " \o saved.err.Message),
                       fs |-> saved.fs]
                 ELSE [err |-> Nil, fs |-> saved.fs]

\* the RunE of configSetCmd: the error it returns and the filesystem after
configSet(f, env, key, value) ==
    LET loaded == Load(f, env)
    IN  IF loaded.err # Nil
        THEN [err |-> exitError(ExitGeneral,
                         "load config: " \o loaded.err.Message), fs |-> f]
        ELSE LET set == Set(loaded.cfg, key, value)
                 saved == Save(f, env, set.cfg)
             IN  IF ~set.ok
                 THEN [err |-> exitError(ExitUsage,
                                  "unknown key \"" \o key \o "\""), fs |-> f]
                 ELSE IF saved.err # Nil
                 THEN [err |-> exitError(ExitFileIO,
                                  "save config: " \o saved.err.Message),
                       fs |-> saved.fs]
                 ELSE [err |-> Nil, fs |-> saved.fs]

-----------------------------------------------------------------------------
(* calls into internal/config over one disk *)

\* an empty value, a plain one, and one that reads as null when unquoted
Values == {"", "key-1", "null"}

Configs == { Config(a, m, d) : a \in Values, m \in Values, d \in Values }

Keys == {"api_key", "model", "default_output_dir", "invalid_key"}

Environ(apiKey, configDir) ==
    [GEMINI_API_KEY |-> apiKey, NBA_CONFIG_DIR |-> configDir,
     NABA_CONFIG_DIR |-> "", HOME |-> "/home/u"]

\* the environment of the tests of the config package and of the README:
\* the directory is named by NABA_CONFIG_DIR
NabaEnviron(apiKey, configDir, nabaDir) ==
    [Environ(apiKey, configDir) EXCEPT !.NABA_CONFIG_DIR = nabaDir]

Environs ==
    { Environ(k, d) : k \in {"", "env-key"}, d \in {"", "/cfg"} }
    \cup { NabaEnviron("", d, "/tmp/test-naba") : d \in {"", "/cfg"} }

\* a disk with nothing but its root directory
Root(readonly) == [p \in {"/"} |-> Directory(readonly)]

\* the config directory of env, holding entry as its config file
WithConfig(env, entry) ==
    Put(MkdirAll(Root(FALSE), ConfigDir(env)).fs, ConfigPath(env), entry)

\* config files found on disk: written by Save, written by hand, damaged
ConfigFiles ==
    { File(Marshal(Config("key-1", "m1", ""))),
      File(Marshal(Config("", "m1", "out"))),
      File(Document(<< Entry("api_key", Scalar("plain", "null")),
                       Entry("theme", Scalar("plain", "dark")) >>)),
      File(Malformed),
      Directory(FALSE) }

ConfigDisks(env) ==
    {Root(FALSE), Root(TRUE), MkdirAll(Root(FALSE), ConfigDir(env)).fs}
    \cup { WithConfig(env, entry) : entry \in ConfigFiles }

\* what a call leaves for a Load that follows it to be compared with
Brief(c) == IF c = Nil THEN Nil ELSE [op |-> c.op, arg |-> c.arg, err |-> c.err]

Called(op, arg, cfg, key, err, prev) ==
    [op |-> op, arg |-> arg, cfg |-> cfg, key |-> key, err |-> err, prev |-> prev]

InitConfig ==
    /\ pc = "ready"
    /\ req = Nil
    /\ httpResp = Nil
    /\ ret = Nil
    /\ environ \in Environs
    /\ fs \in ConfigDisks(environ)
    /\ outputPath = ""
    /\ cwd = "/work"
    /\ now = 0
    /\ calls = << >>
    /\ preexisting = DOMAIN fs
    /\ args = Nil
    /\ run = Nil
    /\ trace = << >>
    /\ exit = Nil
    /\ conf = Nil
    /\ allResults = << >>

UnchangedByConfig ==
    UNCHANGED << pc, req, httpResp, ret, outputPath, cwd, now, calls,
                 preexisting, args, environ, run, trace, exit, allResults >>

\* config.Save(c)
SaveCall(c) ==
    /\ LET saved == Save(fs, environ, c)
       IN  /\ fs' = saved.fs
           /\ conf' = Called("Save", c, Nil, "", saved.err, Nil)
    /\ UnchangedByConfig

\* config.Load()
LoadCall ==
    /\ LET loaded == Load(fs, environ)
       IN  conf' = Called("Load", Nil, loaded.cfg, "", loaded.err, Brief(conf))
    /\ fs' = fs
    /\ UnchangedByConfig

\* config.ResolveAPIKey()
ResolveAPIKeyCall ==
    /\ conf' = Called("ResolveAPIKey", Nil, Nil, ResolveAPIKey(fs, environ), Nil,
                      Nil)
    /\ fs' = fs
    /\ UnchangedByConfig

\* naba config set <key> <value>
ConfigSetCmd(key, value) ==
    /\ LET done == configSet(fs, environ, key, value)
       IN  /\ fs' = done.fs
           /\ conf' = Called("config set", << key, value >>, Nil, "", done.err,
                             Nil)
    /\ UnchangedByConfig

NextConfig ==
    \/ \E c \in Configs : SaveCall(c)
    \/ LoadCall
    \/ ResolveAPIKeyCall
    \/ \E key \in Keys, value \in Values : ConfigSetCmd(key, value)

SpecConfig == InitConfig /\ [][NextConfig]_vars

-----------------------------------------------------------------------------
(* github.com/spf13/cobra: the positional-argument validators.  A command   *)
(* whose validator fails returns its error from Execute without running.    *)

ExactArgs(n, positional) ==
    IF Len(positional) # n
    THEN PlainError("accepts " \o Itoa(n) \o " arg(s), received "
                    \o Itoa(Len(positional)))
    ELSE Nil

RangeArgs(min, max, positional) ==
    IF Len(positional) < min \/ Len(positional) > max
    THEN PlainError("accepts between " \o Itoa(min) \o " and " \o Itoa(max)
                    \o " arg(s), received " \o Itoa(Len(positional)))
    ELSE Nil

-----------------------------------------------------------------------------
(* internal/cli: the image commands *)

Subcommands ==
    {"generate", "edit", "restore", "icon", "pattern", "story", "diagram"}

\* the Args field of each command
Args(cmd, positional) ==
    IF cmd = "edit" THEN ExactArgs(2, positional)
    ELSE IF cmd = "restore" THEN RangeArgs(1, 2, positional)
    ELSE ExactArgs(1, positional)

Invocation(cmd, positional, count, steps, sizes, model) ==
    [cmd |-> cmd, positional |-> positional, genCount |-> count,
     storySteps |-> steps, iconSizes |-> sizes, iconFormat |-> "png",
     flagModel |-> model]

\* resolveAPIKey
resolveAPIKey(f, env) == ResolveAPIKey(f, env)

\* model := flagModel; if model == "" { cfg, _ := config.Load(); model =
\* cfg.Model }: cfg is nil when Load fails, and reading cfg.Model panics
resolveModel(f, env, a) ==
    IF a.flagModel # "" THEN [panic |-> FALSE, model |-> a.flagModel]
    ELSE LET loaded == Load(f, env)
         IN  IF loaded.cfg = Nil THEN [panic |-> TRUE, model |-> ""]
             ELSE [panic |-> FALSE, model |-> loaded.cfg.Model]

\* the passes of the loop of a command over its units of work
Units(a) ==
    IF a.cmd = "generate" THEN (IF a.genCount > 0 THEN a.genCount ELSE 0)
    ELSE IF a.cmd = "story" THEN a.storySteps
    ELSE IF a.cmd = "icon" THEN Len(a.iconSizes)
    ELSE 1

Returns(err) == [returns |-> TRUE, panic |-> FALSE, err |-> err]

\* the handler of edit and restore looking for its input file before it
\* looks for the API key
begin_StatBeforeKey(f, env, a) ==
    LET argErr == Args(a.cmd, a.positional)
    IN  IF argErr # Nil THEN Returns(argErr)
        ELSE IF a.cmd = "story" /\ (a.storySteps < 2 \/ a.storySteps > 8)
        THEN Returns(exitError(ExitUsage, "steps must be between 2 and 8"))
        ELSE IF a.cmd \in {"edit", "restore"} /\ StatNotExist(f, a.positional[1])
        THEN Returns(exitError(ExitFileIO,
                         "input file not found: " \o a.positional[1]))
        ELSE IF resolveAPIKey(f, env) = ""
        THEN Returns(exitError(ExitAuth, "GEMINI_API_KEY not set."))
        ELSE IF resolveModel(f, env, a).panic
        THEN [returns |-> FALSE, panic |-> TRUE, err |-> Nil]
        ELSE IF Units(a) = 0 THEN Returns(Nil)
        ELSE [returns |-> FALSE, panic |-> FALSE, err |-> Nil]

\* the handler of edit and restore leaving the input file to the client
begin_NoStat(f, env, a) ==
    LET argErr == Args(a.cmd, a.positional)
    IN  IF argErr # Nil THEN Returns(argErr)
        ELSE IF a.cmd = "story" /\ (a.storySteps < 2 \/ a.storySteps > 8)
        THEN Returns(exitError(ExitUsage, "steps must be between 2 and 8"))
        ELSE IF resolveAPIKey(f, env) = ""
        THEN Returns(exitError(ExitAuth, "GEMINI_API_KEY not set."))
        ELSE IF resolveModel(f, env, a).panic
        THEN [returns |-> FALSE, panic |-> TRUE, err |-> Nil]
        ELSE IF Units(a) = 0 THEN Returns(Nil)
        ELSE [returns |-> FALSE, panic |-> FALSE, err |-> Nil]

\* the handler of story taking a single frame for a story
begin_StepsFromOne(f, env, a) ==
    LET argErr == Args(a.cmd, a.positional)
    IN  IF argErr # Nil THEN Returns(argErr)
        ELSE IF a.cmd = "story" /\ (a.storySteps < 1 \/ a.storySteps > 8)
        THEN Returns(exitError(ExitUsage, "steps must be between 2 and 8"))
        ELSE IF resolveAPIKey(f, env) = ""
        THEN Returns(exitError(ExitAuth, "GEMINI_API_KEY not set."))
        ELSE IF a.cmd \in {"edit", "restore"} /\ StatNotExist(f, a.positional[1])
        THEN Returns(exitError(ExitFileIO,
                         "input file not found: " \o a.positional[1]))
        ELSE IF resolveModel(f, env, a).panic
        THEN [returns |-> FALSE, panic |-> TRUE, err |-> Nil]
        ELSE IF Units(a) = 0 THEN Returns(Nil)
        ELSE [returns |-> FALSE, panic |-> FALSE, err |-> Nil]

\* rootCmd.Execute up to the loop of the command: the error it returns, a
\* panic, or neither when the command goes on to its units
begin(f, env, a) ==
    LET argErr == Args(a.cmd, a.positional)
    IN  IF argErr # Nil THEN Returns(argErr)
        ELSE IF a.cmd = "story" /\ (a.storySteps < 2 \/ a.storySteps > 8)
        THEN Returns(exitError(ExitUsage, "steps must be between 2 and 8"))
        ELSE IF resolveAPIKey(f, env) = ""
        THEN Returns(exitError(ExitAuth, "GEMINI_API_KEY not set."))
        ELSE IF a.cmd \in {"edit", "restore"} /\ StatNotExist(f, a.positional[1])
        THEN Returns(exitError(ExitFileIO,
                         "input file not found: " \o a.positional[1]))
        ELSE IF resolveModel(f, env, a).panic
        THEN [returns |-> FALSE, panic |-> TRUE, err |-> Nil]
        ELSE IF Units(a) = 0 THEN Returns(Nil)
        ELSE [returns |-> FALSE, panic |-> FALSE, err |-> Nil]

Standing(pc_, unit, images, j) ==
    [pc |-> pc_, unit |-> unit, images |-> images, j |-> j]

Goes(r) == [returns |-> FALSE, run |-> r, err |-> Nil]

Leaves(r, err) == [returns |-> TRUE, run |-> [r EXCEPT !.pc = "exited"], err |-> err]

\* the end of the inner loop over the images of a unit
nextUnit(a, r) ==
    IF r.unit + 1 < Units(a)
    THEN Goes(Standing("request", r.unit + 1, << >>, 0))
    ELSE Leaves(r, Nil)

\* the handler sending the request of a unit again when it fails
afterGenerate_ResendFailed(a, r, result) ==
    IF result.err # Nil THEN Goes(Standing("request", r.unit, << >>, 0))
    ELSE Goes(Standing("write", r.unit, result.images, 0))

\* the handler going on to the next unit when a request fails
afterGenerate_SkipFailedUnit(a, r, result) ==
    IF result.err # Nil \/ Len(result.images) = 0 THEN nextUnit(a, r)
    ELSE Goes(Standing("write", r.unit, result.images, 0))

\* images, err := client.Generate(...); if err != nil { return
\* handleAPIError(err) }
afterGenerate(a, r, result) ==
    IF result.err # Nil THEN Leaves(r, handleAPIError(result.err))
    ELSE IF Len(result.images) = 0 THEN nextUnit(a, r)
    ELSE Goes(Standing("write", r.unit, result.images, 0))

\* the handler going on to the next unit after the first image of a unit
afterWriteImage_LeaveImagesBehind(a, r, w) ==
    IF w.err # Nil THEN Leaves(r, exitError(ExitFileIO, ErrorText(w.err)))
    ELSE nextUnit(a, r)

\* path, err := output.WriteImage(...); if err != nil { return
\* exitError(gemini.ExitFileIO, err.Error()) }
afterWriteImage(a, r, w) ==
    IF w.err # Nil THEN Leaves(r, exitError(ExitFileIO, ErrorText(w.err)))
    ELSE IF r.j + 1 < Len(r.images) THEN Goes([r EXCEPT !.j = r.j + 1])
    ELSE nextUnit(a, r)

\* output.ExtForFormat
ExtForFormat(format) ==
    IF ToLower(format) \in {"jpeg", "jpg"} THEN ".jpg" ELSE ".png"

\* the index handed to WriteImage for image j of the unit
indexOf(a, r) ==
    IF a.cmd = "generate" THEN r.unit * Len(r.images) + r.j
    ELSE IF a.cmd \in {"story", "icon"} THEN r.unit
    ELSE r.j

\* the output path handed to WriteImage
outPathOf(a, r, flagOutput) ==
    IF a.cmd # "icon" THEN flagOutput
    ELSE LET size == a.iconSizes[r.unit + 1]
         IN  IF flagOutput = ""
             THEN "icon-" \o Itoa(size) \o ExtForFormat(a.iconFormat)
             ELSE IF Len(a.iconSizes) > 1
             THEN Suffixed(TrimSuffix(flagOutput, Ext(flagOutput)), size,
                           Ext(flagOutput))
             ELSE flagOutput

-----------------------------------------------------------------------------
(* one invocation of an image command *)

MaxUnits == 3     \* largest --count, --steps and number of --size values

\* the positional arguments: none, too few, the right number, too many
Positionals(cmd) ==
    IF cmd \in {"edit", "restore"}
    THEN {<< >>}
         \cup { << image >> : image \in ImagePaths }
         \cup { << image, "a cat" >> : image \in ImagePaths }
         \cup { << image, "a cat", "a dog" >> : image \in ImagePaths }
    ELSE {<< >>, << "a cat" >>, << "a cat", "a dog" >>}

\* n values of --size
SizeList(n) == [i \in 1..n |-> 16 * i]

\* the command lines: the flags of the other commands keep their defaults
Invocations ==
    UNION { { Invocation(cmd, positional, count, steps, sizes, model) :
                positional \in Positionals(cmd),
                count \in (IF cmd = "generate" THEN (-1..MaxUnits) \cup {9}
                           ELSE {1}),
                steps \in (IF cmd = "story" THEN (1..MaxUnits) \cup {9} ELSE {4}),
                sizes \in (IF cmd = "icon" THEN { SizeList(n) : n \in 1..MaxUnits }
                           ELSE {<< 256 >>}),
                model \in {"", "m2"} }
            : cmd \in Subcommands }

\* the prompt handed to the client
promptOf(a) == IF a.cmd \in {"edit", "restore"}
               THEN (IF Len(a.positional) > 1 THEN a.positional[2] ELSE "")
               ELSE a.positional[1]

\* a 200 answer with one candidate holding the parts
Body(parts) ==
    JSONBody(<< [Content |-> [Role |-> "model", Parts |-> parts]] >>, Nil, "")

\* what the API may answer to the request of a unit
Replies ==
    { Failure(kind) : kind \in FailureKinds }
    \cup { Response(statusCode, JSONBody(<< >>, Nil, "quota exceeded")) :
             statusCode \in {401, 429, 500} }
    \cup { Response(StatusOK, NotJSON),
           Response(StatusOK, JSONBody(<< >>, [BlockReason |-> "SAFETY"], "")),
           Response(StatusOK,
                    JSONBody(<< [Content |-> [Role |-> "model",
                                              Parts |-> << InlinePart("image/png",
                                                                      "QQ==") >>]] >>,
                             [BlockReason |-> "OTHER"], "")),
           Response(StatusOK, Body(<< TextPart("I cannot draw that") >>)),
           Response(StatusOK, Body(<< InlinePart("image/png", "Q!==") >>)),
           Response(StatusOK, Body(<< InlinePart("image/png", "QQ==") >>)),
           Response(StatusOK, Body(<< InlinePart("image/png", "QQ=="),
                                      InlinePart("image/jpeg", "QUI=") >>)) }

\* a run of more units than MaxUnits is answered with one image each time
RepliesTo(a) ==
    IF Units(a) > MaxUnits
    THEN {Response(StatusOK, Body(<< InlinePart("image/png", "QQ==") >>))}
    ELSE Replies

CLIEnvirons == { Environ(k, "/cfg") : k \in {"", "env-key"} }

\* no config file, one with a key and a model, one with a model only, and
\* one that is no YAML
CLIConfigDisks(env) ==
    { Root(FALSE),
      WithConfig(env, File(Marshal(Config("key-1", "m1", "")))),
      WithConfig(env, File(Marshal(Config("", "m1", "")))),
      WithConfig(env, File(Malformed)) }

CLIScenarios ==
    { Scenario(EmptyDisk, "foo.png", "/work"),
      Scenario(EmptyDisk, "", "/work"),
      Scenario(Guarded, "out/foo.png", "/work") }

Overlay(f, g) ==
    [p \in DOMAIN f \cup DOMAIN g |-> IF p \in DOMAIN g THEN g[p] ELSE f[p]]

\* a Result that names the command where the path belongs
NewResult_CommandAsPath(path, command, prompt) ==
    [Path |-> command, Command |-> command, Prompt |-> prompt]

\* output.NewResult: the fields that do not depend on the clock
NewResult(path, command, prompt) ==
    [Path |-> path, Command |-> command, Prompt |-> prompt]

Event(kind, unit, path) == [kind |-> kind, unit |-> unit, path |-> path]

InitCLI ==
    /\ pc = "ready"
    /\ req = Nil
    /\ httpResp = Nil
    /\ ret = Nil
    /\ args \in Invocations
    /\ environ \in CLIEnvirons
    /\ \E disk \in CLIConfigDisks(environ), sc \in CLIScenarios :
          /\ fs = Overlay(Overlay(disk, InputFiles), sc.fs)
          /\ outputPath = sc.outputPath
          /\ cwd = sc.cwd
    /\ now = 0
    /\ calls = << >>
    /\ preexisting = DOMAIN fs
    /\ run = Standing("start", 0, << >>, 0)
    /\ trace = << >>
    /\ exit = Nil
    /\ conf = Nil
    /\ allResults = << >>

\* rootCmd.Execute: the validation of the arguments and the handler up to
\* its loop
Execute ==
    /\ run.pc = "start"
    /\ LET b == begin(fs, environ, args)
       IN  IF b.panic
           THEN /\ exit' = Panic
                /\ run' = [run EXCEPT !.pc = "exited"]
           ELSE IF b.returns
           THEN /\ exit' = main(b.err)
                /\ run' = [run EXCEPT !.pc = "exited"]
           ELSE /\ exit' = exit
                /\ run' = Standing("request", 0, << >>, 0)
    /\ UNCHANGED << pc, req, httpResp, ret, fs, outputPath, cwd, now, calls,
                    preexisting, args, environ, trace, conf, allResults >>

\* client.Generate or client.GenerateWithImage for the unit, and the
\* handler's check of what it returned
ClientCall(reply) ==
    /\ run.pc = "request"
    /\ LET withImage == args.cmd \in {"edit", "restore"}
           img     == readImageFile(fs, args.positional[1])
           built   == ~withImage \/ img.err = Nil
           request == IF withImage
                      THEN GenerateRequest(<< TextPart(promptOf(args)),
                                              InlinePart(img.mimeType, img.data) >>)
                      ELSE GenerateRequest(<< TextPart(promptOf(args)) >>)
           result  == IF built THEN doRequest(request, reply)
                      ELSE [images |-> << >>, err |-> img.err]
           step    == afterGenerate(args, run, result)
       IN  /\ IF built
              THEN /\ req' = request
                   /\ httpResp' = reply
                   /\ trace' = IF reply.kind = "newRequestErr" THEN trace
                               ELSE Append(trace, Event("request", run.unit, ""))
              ELSE UNCHANGED << req, httpResp, trace >>
           /\ ret' = result
           /\ run' = step.run
           /\ exit' = IF step.returns THEN main(step.err) ELSE exit
    /\ UNCHANGED << pc, fs, outputPath, cwd, now, calls, preexisting, args,
                    environ, conf, allResults >>

\* output.WriteImage for the next image of the unit, and the handler's
\* check of what it returned
WriteStep ==
    /\ run.pc = "write"
    /\ LET img == run.images[run.j + 1]
           out == outPathOf(args, run, outputPath)
       IN  /\ IF out = ""
              THEN \E t \in now..(IF now < MaxClock THEN now + 1 ELSE now) : now' = t
              ELSE UNCHANGED now
           /\ LET w == WriteImage(fs, cwd, now', img.Data, img.MIMEType, out,
                                  args.cmd, indexOf(args, run))
                  step == afterWriteImage(args, run, w)
              IN  /\ fs' = w.fs
                  /\ calls' = Append(calls,
                                 [index |-> indexOf(args, run), data |-> img.Data,
                                  mimeType |-> img.MIMEType, out |-> out,
                                  unit |-> run.unit, path |-> w.path,
                                  written |-> w.written, err |-> w.err])
                  /\ trace' = IF w.err # Nil THEN trace
                              ELSE Append(trace, Event("write", run.unit, w.written))
                  /\ allResults' = IF w.err # Nil THEN allResults
                                   ELSE Append(allResults,
                                               NewResult(w.path, args.cmd,
                                                         promptOf(args)))
                  /\ run' = step.run
                  /\ exit' = IF step.returns THEN main(step.err) ELSE exit
    /\ UNCHANGED << pc, req, httpResp, ret, outputPath, cwd, preexisting, args,
                    environ, conf >>

NextCLI ==
    \/ Execute
    \/ \E reply \in RepliesTo(args) : ClientCall(reply)
    \/ WriteStep

SpecCLI == InitCLI /\ [][NextCLI]_vars

-----------------------------------------------------------------------------
(* the name WriteImage gives to an image when no --output is given *)

\* MIME types a response may carry in inlineData.mimeType
AllMimeTypes ==
    {"image/png", "image/jpeg", "image/gif", "image/webp", "image/bmp",
     "image/unknown", "IMAGE/JPEG", ""}

MaxNamed == 2     \* images one invocation names

InitNaming ==
    /\ pc = "ready"
    /\ req = Nil
    /\ httpResp = Nil
    /\ ret = Nil
    /\ fs = EmptyDisk
    /\ outputPath = ""
    /\ cwd = "/work"
    /\ now = 0
    /\ calls = << >>
    /\ preexisting = DOMAIN fs
    /\ NoInvocation

\* output.WriteImage(data, mimeType, "", command, index)
NameImage(mimeType, command, index) ==
    /\ Len(calls) < MaxNamed
    /\ WriteImageCall(mimeType, command, index)

NextNaming ==
    \E mimeType \in AllMimeTypes, command \in Commands, index \in {0, 1} :
        NameImage(mimeType, command, index)

SpecNaming == InitNaming /\ [][NextNaming]_vars

-----------------------------------------------------------------------------
(* what the disk holds, read without the code under check *)

\* the api_key a well-formed config file holds
APIKeyIn(doc) ==
    LET at == { i \in 1..Len(doc.entries) : doc.entries[i].key = "api_key" }
    IN  IF at = {} THEN ""
        ELSE LET value == doc.entries[CHOOSE i \in at : TRUE].value
             IN  IF value.style = "plain" /\ value.text \in {"null", "~"}
                 THEN "" ELSE value.text

-----------------------------------------------------------------------------
(* Properties of the image commands, under SpecCLI *)

Exited == exit # Nil

RequestFailed == ret # Nil /\ ret.err # Nil

\* a unit of the invocation failed: its client call or a write of its images
UnitFailed == RequestFailed \/ Failed

\* the error of the failed unit
UnitError ==
    IF RequestFailed THEN ret.err
    ELSE calls[CHOOSE i \in 1..Len(calls) : calls[i].err # Nil].err

Requests == SelectSeq(trace, LAMBDA e : e.kind = "request")

Writes == SelectSeq(trace, LAMBDA e : e.kind = "write")

\* C11: in a multi-unit command (generate --count, story --steps, icon with
\* several sizes), once the pipeline fails on one unit, by an API error or by
\* a write error, the command returns that error immediately: no API request
\* is issued and no file is written for any later unit.
C11_FailFast ==
    /\ [](UnitFailed =>
            /\ Exited /\ ~exit.panic /\ exit.status # 0
            /\ exit.err # Nil /\ ErrorText(exit.err) = ErrorText(UnitError)
            /\ \A i \in 1..Len(trace) : trace[i].unit <= run.unit)
    /\ [][UnitFailed => (trace' = trace /\ fs' = fs)]_vars

\* the second frame of a three-frame story is refused by the API after the
\* first frame was written
C11_Witness ==
    /\ args.cmd = "story" /\ args.storySteps = 3
    /\ run.unit = 1
    /\ RequestFailed /\ IsAPIError(ret.err) /\ ret.err.StatusCode = 429
    /\ Len(Requests) = 2 /\ Len(Writes) >= 1
    /\ Exited /\ exit.status = ExitRateLimit

\* the positions of the units in the loop: the request of the k-th unit is
\* the k-th request of the invocation
OneRequestPerUnit == \A i \in 1..Len(Requests) : Requests[i].unit = i - 1

SucceededAs(cmd) == Exited /\ exit.status = 0 /\ args.cmd = cmd

\* the claim as it is worded: N requests for --count N, and k requests when
\* the k-th unit fails
C12_AsStated ==
    /\ OneRequestPerUnit
    /\ SucceededAs("generate") => Len(Requests) = args.genCount
    /\ SucceededAs("story") => Len(Requests) = args.storySteps
    /\ (Exited /\ UnitFailed) => Len(Requests) = run.unit + 1

\* the failed unit never got to its POST: the input image could not be read,
\* or no request could be made of the URL
FailedUnsent ==
    /\ RequestFailed
    /\ \/ args.cmd \in {"edit", "restore"} /\ ~IsFile(fs, args.positional[1])
       \/ httpResp # Nil /\ httpResp.kind = "newRequestErr"

\* C12: each unit of work issues at most one POST and a failed request is
\* never re-sent: a successful generate --count N with N >= 0 issues exactly
\* N requests (none for a negative N), a successful story --steps S issues
\* exactly S requests, and a run that fails at its k-th unit has issued
\* exactly k requests, or k-1 when that unit failed before its request was
\* sent (unreadable input image, or a URL no request can be made of).
C12_OneRequestPerUnit ==
    /\ OneRequestPerUnit
    /\ SucceededAs("generate") =>
           Len(Requests) = IF args.genCount >= 0 THEN args.genCount ELSE 0
    /\ SucceededAs("story") => Len(Requests) = args.storySteps
    /\ (Exited /\ UnitFailed) =>
           Len(Requests) = IF FailedUnsent THEN run.unit ELSE run.unit + 1

\* generate --count 2 succeeds after two requests, one of which brought two
\* images
C12_Witness ==
    /\ SucceededAs("generate") /\ args.genCount = 2
    /\ Len(Requests) = 2 /\ Len(Writes) = 3

\* C13: every failing invocation exits with the exit code attached to its
\* error: the ExitCode and Message of an APIError pass unchanged through
\* handleAPIError to the process exit status, every error that carries no
\* exit code maps to general (1), and the only non-zero exit statuses ever
\* produced are 1, 2, 3, 4, 5 and 10.
C13_ExitCodeOfError ==
    Exited =>
        /\ exit.status \in {0, ExitGeneral, ExitUsage, ExitAuth, ExitRateLimit,
                            ExitAPI, ExitFileIO}
        /\ exit.status # 0 =>
               /\ exit.err # Nil
               /\ exit.status = IF HasExitCode(exit.err) THEN exit.err.code
                                ELSE ExitGeneral
        /\ (RequestFailed /\ IsAPIError(ret.err)) =>
               /\ exit.status = ret.err.ExitCode
               /\ ErrorText(exit.err) = ret.err.Message
        /\ (RequestFailed /\ ~IsAPIError(ret.err)) => exit.status = ExitGeneral

\* the arguments do not pass the validator of the command
BadArguments == Args(args.cmd, args.positional) # Nil

\* C14: an invocation with bad flags or arguments (for example generate with
\* zero or two positional arguments, edit with one, restore with none) exits
\* with the usage exit code 2.
C14_BadArgumentsExitUsage ==
    (Exited /\ BadArguments) => exit.status = ExitUsage

\* neither the environment nor the config file supplies an API key
NoAPIKey ==
    /\ environ.GEMINI_API_KEY = ""
    /\ LET path == ConfigPath(environ)
       IN  \/ ~IsFile(fs, path)
           \/ ~fs[path].data.yaml
           \/ APIKeyIn(fs[path].data) = ""

ValidArguments ==
    /\ ~BadArguments
    /\ args.cmd = "story" => args.storySteps \in 2..8

\* C15: when neither the GEMINI_API_KEY environment variable nor the config
\* file supplies an API key, each of generate, edit, restore, icon, pattern,
\* story and diagram (with otherwise valid arguments) fails with the auth
\* exit code (3) without issuing any API request and without writing any
\* file.
C15_MissingAPIKey ==
    (NoAPIKey /\ ValidArguments /\ run.pc # "start") =>
        /\ Exited /\ exit.status = ExitAuth
        /\ trace = << >> /\ calls = << >>
        /\ req = Nil
        /\ DOMAIN fs = preexisting

\* edit pointed at a file that does not exist, with no key anywhere: the
\* missing key is what it reports
C15_Witness ==
    /\ NoAPIKey /\ ValidArguments
    /\ args.cmd = "edit" /\ args.positional[1] = "missing.png"
    /\ Exited /\ exit.status = ExitAuth /\ trace = << >>

\* the command is edit or restore, with valid arguments, a key, and a model
\* it can settle on
ReadsInput ==
    /\ args.cmd \in {"edit", "restore"}
    /\ ValidArguments /\ ~NoAPIKey
    /\ args.flagModel # "" \/ Load(fs, environ).err = Nil

InputPath == args.positional[1]

TransportFailed == httpResp # Nil /\ httpResp.kind \in FailureKinds

\* C17: a transport failure that never reaches the classifier (timeout,
\* connection refused, malformed URL) is returned as a plain error, not an
\* APIError, and surfaces with the general exit code (1), never with the
\* auth, rate-limit or api code.
C17_TransportFailureIsGeneral ==
    TransportFailed =>
        /\ RequestFailed /\ ~IsAPIError(ret.err)
        /\ Exited /\ exit.status = ExitGeneral

\* the second request of an icon run times out
C17_Witness ==
    /\ TransportFailed /\ httpResp.kind = "doErr"
    /\ args.cmd = "icon" /\ run.unit = 1
    /\ Exited /\ exit.status = ExitGeneral

\* the latest answer was a 200 whose body is no JSON
Unparseable200 ==
    /\ httpResp # Nil /\ httpResp.kind = "response"
    /\ httpResp.StatusCode = StatusOK /\ ~httpResp.body.json

\* C18: an HTTP 200 response whose body cannot be parsed as a
\* GenerationResponse fails with the general exit code (1) and a message
\* containing "parse response", and returns no images.
C18_UnparseableBody ==
    Unparseable200 =>
        /\ RequestFailed /\ ret.images = << >>
        /\ Contains(ErrorText(ret.err), "parse response")
        /\ Exited /\ exit.status = ExitGeneral
        /\ Contains(ErrorText(exit.err), "parse response")

\* an edit whose answer cannot be parsed
C18_Witness ==
    /\ Unparseable200 /\ args.cmd = "edit"
    /\ Exited /\ exit.status = ExitGeneral
    /\ Writes = << >>

-----------------------------------------------------------------------------
(* Properties of internal/config, under SpecConfig *)

Did(op) == conf # Nil /\ conf.op = op

\* the call before the latest one was op and returned no error
After(op) == conf.prev # Nil /\ conf.prev.op = op /\ conf.prev.err = Nil

\* C19: ResolveAPIKey returns the value of GEMINI_API_KEY whenever it is
\* non-empty, even when the config file holds a different key; otherwise it
\* returns the api_key of the config file; and it returns the empty string
\* when neither is set or when the config file cannot be loaded.
C19_ResolveAPIKey ==
    Did("ResolveAPIKey") =>
        LET path == ConfigPath(environ)
        IN  IF environ.GEMINI_API_KEY # "" THEN conf.key = environ.GEMINI_API_KEY
            ELSE IF ~Exists(fs, path) THEN conf.key = ""
            ELSE IF ~IsFile(fs, path) \/ ~fs[path].data.yaml THEN conf.key = ""
            ELSE conf.key = APIKeyIn(fs[path].data)

\* the environment variable wins over a different key in the config file
C19_Witness ==
    /\ Did("ResolveAPIKey")
    /\ environ.GEMINI_API_KEY = "env-key"
    /\ IsFile(fs, ConfigPath(environ))
    /\ fs[ConfigPath(environ)].data.yaml
    /\ APIKeyIn(fs[ConfigPath(environ)].data) = "key-1"
    /\ conf.key = "env-key"

\* C20: Save(cfg) followed by Load() returns a config whose api_key, model and
\* default_output_dir equal those of cfg, for every cfg, with the config
\* directory created when it is missing; likewise config set K V followed by
\* a load leaves K holding V.
C20_SaveLoadRoundTrip ==
    /\ (Did("Save") /\ conf.err = Nil) =>
           /\ IsDir(fs, ConfigDir(environ))
           /\ IsFile(fs, ConfigPath(environ))
    /\ (Did("Load") /\ After("Save")) =>
           /\ conf.err = Nil
           /\ conf.cfg.APIKey = conf.prev.arg.APIKey
           /\ conf.cfg.Model = conf.prev.arg.Model
           /\ conf.cfg.DefaultOutputDir = conf.prev.arg.DefaultOutputDir
    /\ (Did("Load") /\ After("config set")) =>
           /\ conf.err = Nil
           /\ Get(conf.cfg, conf.prev.arg[1]) = conf.prev.arg[2]

\* a config whose key would read as null when unquoted comes back from a
\* directory that Save had to create
C20_Witness ==
    /\ Did("Load") /\ After("Save")
    /\ ConfigDir(environ) \notin preexisting
    /\ conf.prev.arg.APIKey = "null"
    /\ conf.prev.arg.Model = "key-1"
    /\ conf.cfg = conf.prev.arg

-----------------------------------------------------------------------------
(* story --steps *)

\* the values of --steps the check of runStory is put to
StepValues == -1..10

\* a story command line with its one prompt
IsStory == args # Nil /\ args.cmd = "story" /\ Args(args.cmd, args.positional) = Nil

\* runStory refused the number of steps
StepsRefused(b) ==
    /\ b.returns
    /\ b.err # Nil
    /\ b.err.type = "*cli.exitCodeError"
    /\ b.err.code = ExitUsage
    /\ Contains(b.err.message, "between 2 and 8")

\* C21: story with --steps outside 2..8 fails with the usage exit code 2 and
\* a message containing "between 2 and 8" before any request is issued or
\* any file written, whether or not an API key is there; every value in 2..8
\* passes the check.
C21_StoryStepsRange ==
    IsStory =>
      /\ run.pc = "start" =>
           \A s \in StepValues :
              StepsRefused(begin(fs, environ, [args EXCEPT !.storySteps = s]))
                <=> s \notin 2..8
      /\ (Exited /\ args.storySteps \notin 2..8) =>
           /\ exit.status = ExitUsage
           /\ Contains(ErrorText(exit.err), "between 2 and 8")
           /\ trace = << >>
           /\ calls = << >>
           /\ DOMAIN fs = preexisting
      /\ (Exited /\ args.storySteps \in 2..8) =>
           ~(exit.err # Nil /\ Contains(ErrorText(exit.err), "between 2 and 8"))

\* story --steps 9 with no API key anywhere has left with exit code 2
C21_Witness ==
    /\ IsStory
    /\ args.storySteps = 9
    /\ NoAPIKey
    /\ Exited
    /\ exit.status = ExitUsage
    /\ trace = << >>

-----------------------------------------------------------------------------
(* the config directory *)

\* the directory and the file the README and the tests of the config
\* package name
DocumentedConfigDir(env) ==
    IF env.NABA_CONFIG_DIR # "" THEN env.NABA_CONFIG_DIR
    ELSE env.HOME \o "/.config/naba"

\* C22: when NABA_CONFIG_DIR is set to a non-empty value, ConfigDir()
\* returns that value and ConfigPath() returns <value>/config.yaml; when it
\* is unset or empty, ConfigDir() is <home>/.config/naba; a config that was
\* saved lies in that file.
C22_ConfigDir ==
    environ # Nil =>
      /\ ConfigDir(environ) = DocumentedConfigDir(environ)
      /\ ConfigPath(environ) = DocumentedConfigDir(environ) \o "/config.yaml"
      /\ (Did("Save") /\ conf.err = Nil) =>
            IsFile(fs, DocumentedConfigDir(environ) \o "/config.yaml")

\* what the code does: the variable it reads is NBA_CONFIG_DIR and its
\* default is <home>/.config/nba, whatever NABA_CONFIG_DIR holds
C22_CodeReadsNBA ==
    environ # Nil =>
      /\ ConfigDir(environ) = IF environ.NBA_CONFIG_DIR # ""
                              THEN environ.NBA_CONFIG_DIR
                              ELSE environ.HOME \o "/.config/nba"
      /\ ConfigPath(environ) = ConfigDir(environ) \o "/config.yaml"
      /\ (Did("Save") /\ conf.err = Nil) => IsFile(fs, ConfigPath(environ))

\* a config was saved with NABA_CONFIG_DIR set and lies under the home
\* directory
C22_SavedElsewhere ==
    /\ Did("Save")
    /\ conf.err = Nil
    /\ environ.NABA_CONFIG_DIR = "/tmp/test-naba"
    /\ environ.NBA_CONFIG_DIR = ""
    /\ IsFile(fs, "/home/u/.config/nba/config.yaml")
    /\ ~Exists(fs, "/tmp/test-naba/config.yaml")

-----------------------------------------------------------------------------
(* Properties of the automatic names, under SpecNaming *)

\* the table of extensions
ExtensionOf(mimeType) ==
    CASE mimeType = "image/png"  -> ".png"
      [] mimeType = "image/jpeg" -> ".jpg"
      [] mimeType = "image/gif"  -> ".gif"
      [] mimeType = "image/webp" -> ".webp"
      [] OTHER                   -> ".png"

AutoNamed(i) == calls[i].out = "" /\ calls[i].err = Nil

\* C23: the extension of an auto-named output file depends only on the MIME
\* type of the image: image/png gives .png, image/jpeg gives .jpg, image/gif
\* gives .gif, image/webp gives .webp, and every other MIME type gives .png,
\* whatever the index, the time and the names already taken.
C23_ExtensionByMIMEType ==
    \A i \in 1..Len(calls) :
       AutoNamed(i) =>
          /\ IsFile(fs, calls[i].written)
          /\ Ext(calls[i].written) = ExtensionOf(calls[i].mimeType)
          /\ Ext(calls[i].path) = ExtensionOf(calls[i].mimeType)
          /\ \A k \in 1..Len(calls) :
                (AutoNamed(k) /\ calls[k].mimeType = calls[i].mimeType)
                   => Ext(calls[k].written) = Ext(calls[i].written)

\* an image of an unknown type and a png image were named in the same second,
\* the second after the name of the first
C23_Witness ==
    /\ Len(calls) = 2
    /\ AutoNamed(1) /\ AutoNamed(2)
    /\ calls[1].mimeType = "image/bmp"
    /\ calls[2].mimeType = "image/png"
    /\ calls[1].index = calls[2].index
    /\ HasSuffix(calls[1].written, "000000.png")
    /\ HasSuffix(calls[2].written, "000000-1.png")

-----------------------------------------------------------------------------
(* Config.Set and naba config set *)

\* keys put to Config.Set: the three it knows and others
SetKeys == Keys \cup {"unknown", "", "API_KEY", "apikey"}

KnownKeys == {"api_key", "model", "default_output_dir"}

\* Set on every config of the model
SetContract ==
    \A c \in Configs, key \in SetKeys, value \in Values :
       LET set == Set(c, key, value)
       IN  /\ set.ok <=> key \in KnownKeys
           /\ set.ok => /\ Get(set.cfg, key) = value
                        /\ \A other \in KnownKeys \ {key} :
                              Get(set.cfg, other) = Get(c, other)
           /\ ~set.ok => set.cfg = c

\* the config file is not there or is a YAML document
ConfigLoads ==
    LET path == ConfigPath(environ)
    IN  ~Exists(fs, path) \/ (IsFile(fs, path) /\ fs[path].data.yaml)

SetUnknownKey == Did("config set") /\ conf.arg[1] \notin KnownKeys

\* C24: Config.Set(key, value) returns true exactly for the keys api_key,
\* model and default_output_dir, after which Get(key) returns value; for any
\* other key it returns false and changes no field, and the config set
\* command then fails with the usage exit code 2 and a message containing
\* "unknown key" without saving the config file.
C24_ConfigSet ==
    /\ [](environ # Nil =>
            /\ conf = Nil => SetContract
            /\ (SetUnknownKey /\ ConfigLoads) =>
                  /\ main(conf.err).status = ExitUsage
                  /\ Contains(ErrorText(conf.err), "unknown key"))
    /\ [][SetUnknownKey' => fs' = fs]_vars

\* config set invalid_key on a disk with no config directory: exit code 2
\* and still no config directory
C24_Witness ==
    /\ SetUnknownKey
    /\ conf.arg[1] = "invalid_key"
    /\ main(conf.err).status = ExitUsage
    /\ ~Exists(fs, ConfigDir(environ))
    /\ ~Exists(fs, ConfigPath(environ))

-----------------------------------------------------------------------------
(* the pipeline of one unit *)

\* the answer to the request of the unit was classified as a success and
\* extractImages returned at least one image
UnitSucceeded ==
    /\ httpResp # Nil
    /\ httpResp.kind = "response"
    /\ httpResp.StatusCode = 200
    /\ httpResp.body.json
    /\ BlockReasonOf(httpResp.body) = ""
    /\ ret # Nil
    /\ ret.err = Nil
    /\ Len(ret.images) >= 1

WritesOf(unit) == SelectSeq(trace, LAMBDA e : e.kind = "write" /\ e.unit = unit)

\* C25: an output file is written for a unit only after that unit's response
\* was classified as a success (status 200, parseable body, empty block
\* reason) and extraction returned at least one image: a unit whose request,
\* classification or extraction fails writes no file.
C25_WriteOnlyAfterSuccess ==
    /\ [](args # Nil =>
            /\ run.pc = "write" => UnitSucceeded
            /\ \A i \in 1..Len(trace) :
                  trace[i].kind = "write" =>
                     \E k \in 1..(i - 1) : /\ trace[k].kind = "request"
                                           /\ trace[k].unit = trace[i].unit
            /\ RequestFailed => WritesOf(run.unit) = << >>)
    /\ [][(fs' # fs \/ calls' # calls) => (run.pc = "write" /\ UnitSucceeded)]_vars

\* the first unit was written, the second was answered with images under a
\* block reason, and nothing was written for it
C25_Witness ==
    /\ args # Nil
    /\ args.cmd = "generate"
    /\ run.unit = 1
    /\ httpResp # Nil /\ httpResp.kind = "response"
    /\ httpResp.StatusCode = 200 /\ httpResp.body.json
    /\ BlockReasonOf(httpResp.body) = "OTHER"
    /\ Len(httpResp.body.Candidates) = 1
    /\ RequestFailed
    /\ Len(WritesOf(0)) = 2
    /\ WritesOf(1) = << >>
    /\ Exited

-----------------------------------------------------------------------------
(* the order of the units.  The handlers start no goroutine: what is in     *)
(* progress is what the one thread of the command is at, run.pc.            *)

RequestIssued == Len(Requests') = Len(Requests) + 1

ImageWritten == calls' # calls \/ fs' # fs

\* C26: within one invocation the pipeline runs never overlap: the request
\* of unit k+1 is issued only after every image of unit k has been written,
\* and at any time at most one API request or one file write is in progress.
C26_NoOverlap ==
    /\ [](args # Nil =>
            /\ \A i, k \in 1..Len(trace) :
                  i < k => /\ trace[i].unit <= trace[k].unit
                           /\ trace[i].unit = trace[k].unit
                                 => trace[k].kind = "write"
            /\ (run.pc = "request" /\ run.unit > 0) =>
                  /\ ret.err = Nil
                  /\ Len(WritesOf(run.unit - 1)) = Len(ret.images)
                  /\ Len(calls) = Len(Writes))
    /\ [][/\ Len(trace') <= Len(trace) + 1
          /\ Len(calls') <= Len(calls) + 1
          /\ RequestIssued => (run.pc = "request" /\ ~ImageWritten)
          /\ ImageWritten => (run.pc = "write" /\ ~RequestIssued
                              /\ req' = req /\ httpResp' = httpResp)]_vars

\* the second request of generate --count 2 went out after both images of
\* the first answer were on disk, and its one image was written after it
C26_Witness ==
    /\ args # Nil
    /\ args.cmd = "generate"
    /\ args.genCount = 2
    /\ Exited
    /\ exit.status = 0
    /\ Len(trace) = 5
    /\ trace[1].kind = "request" /\ trace[1].unit = 0
    /\ trace[2].kind = "write" /\ trace[3].kind = "write"
    /\ trace[4].kind = "request" /\ trace[4].unit = 1
    /\ trace[5].kind = "write" /\ trace[5].unit = 1

-----------------------------------------------------------------------------
(* the images of a run and its results *)

\* the unit whose answer ret holds
AnsweredUnit == IF run.pc = "request" THEN run.unit - 1 ELSE run.unit

\* the WriteImage calls made for a unit
WrittenFor(unit) == SelectSeq(calls, LAMBDA call : call.unit = unit)

\* no client call and no write of the run has failed
NothingFailed == args # Nil /\ ~UnitFailed /\ (Exited => exit.status = 0)

IsPrefix(s, t) == Len(s) <= Len(t) /\ SubSeq(t, 1, Len(s)) = s

\* C27: on a run in which no step fails, every ImageResult returned by
\* extraction is passed to WriteImage exactly once, in extraction order, and
\* the results list, which only ever grows by appends, ends with exactly one
\* Result per written file, in write order.
C27_EveryImageWrittenOnce ==
    /\ [](NothingFailed =>
            /\ ret # Nil =>
                 LET written == WrittenFor(AnsweredUnit)
                 IN  /\ Len(written) = IF run.pc = "write" THEN run.j
                                       ELSE Len(ret.images)
                     /\ \A i \in 1..Len(written) :
                           /\ written[i].data = ret.images[i].Data
                           /\ written[i].mimeType = ret.images[i].MIMEType
            /\ \A i, k \in 1..Len(calls) : i < k => calls[i].unit <= calls[k].unit
            /\ Len(allResults) = Len(calls)
            /\ \A i \in 1..Len(calls) :
                  /\ allResults[i].Path = calls[i].path
                  /\ allResults[i].Command = args.cmd
                  /\ IsFile(fs, calls[i].written))
    /\ [][/\ IsPrefix(calls, calls')
          /\ IsPrefix(allResults, allResults')
          /\ Len(allResults') <= Len(allResults) + 1]_vars

\* generate --count 2 ended well after answers of two images and of one:
\* three calls, three results, the two images of the first answer in order
C27_Witness ==
    /\ NothingFailed
    /\ Exited
    /\ args.cmd = "generate"
    /\ args.genCount = 2
    /\ Len(allResults) = 3
    /\ Len(WrittenFor(0)) = 2
    /\ WrittenFor(0)[1].mimeType = "image/png"
    /\ WrittenFor(0)[2].mimeType = "image/jpeg"
    /\ Len(ret.images) = 1
    /\ allResults[3].Path = calls[3].path

-----------------------------------------------------------------------------
(* generate --count *)

\* C28: the --count of generate is restricted to its documented range 1-8:
\* one generate invocation that reaches the API issues at least 1 and at
\* most 8 requests, whatever count value is passed.
C28_CountRange ==
    (args # Nil /\ args.cmd = "generate" /\ Len(Requests) > 0) =>
        /\ Len(Requests) >= 1
        /\ Len(Requests) <= 8

\* what the code does: a count that is positive is the number of requests of
\* a run that ends well, whatever the documented range
C28_CountIsNotChecked ==
    (SucceededAs("generate") /\ args.genCount > 0) =>
        Len(Requests) = args.genCount

\* generate --count 9 ended well after nine requests and nine files
C28_NineRequests ==
    /\ SucceededAs("generate")
    /\ args.genCount = 9
    /\ Len(Requests) = 9
    /\ Len(Writes) = 9

-----------------------------------------------------------------------------
(* the index generate hands to WriteImage *)

IndexesDistinct ==
    \A i, k \in 1..Len(calls) : i # k => calls[i].index # calls[k].index

\* C29: in generate with --count N, the output index idx = i*len(images)+j
\* passed to WriteImage (and reported as params.index = idx+1) is distinct
\* for every image written in the invocation, for any numbers of images
\* returned by the N responses, including responses that return different
\* numbers of images.
C29_IndexDistinct ==
    (args # Nil /\ args.cmd = "generate") => IndexesDistinct

\* what the code does: the indexes of a run that ended well are distinct
\* when every answer held the same number of images
C29_DistinctForEqualAnswers ==
    (SucceededAs("generate")
       /\ \A u, v \in 0..(Units(args) - 1) :
             Len(WrittenFor(u)) = Len(WrittenFor(v)))
      => IndexesDistinct

\* two images, then one: the second image of the first answer and the image
\* of the second were both written with index 1
C29_SameIndexTwice ==
    /\ SucceededAs("generate")
    /\ args.genCount = 2
    /\ Len(calls) = 3
    /\ calls[2].unit = 0 /\ calls[2].index = 1
    /\ calls[3].unit = 1 /\ calls[3].index = 1
    /\ calls[2].written # calls[3].written

-----------------------------------------------------------------------------
(* the files of one invocation *)

\* fewer names exist than dedup tries: some suffixed name of any target is
\* free
FewNames == Cardinality(DOMAIN fs) < DedupLimit - 1

Returned == { i \in 1..Len(calls) : calls[i].err = Nil }

\* a step on which WriteImage returned a path
PathReturned ==
    /\ Len(calls') = Len(calls) + 1
    /\ calls'[Len(calls')].err = Nil

\* C30: all paths returned by WriteImage within one invocation are pairwise
\* distinct, so no image written earlier in the invocation is overwritten by
\* a later one, also when a story frame or a generate response returns
\* several images that are written with the same index and requested path,
\* as long as fewer than 999 suffixed names of the target exist.
C30_PathsPairwiseDistinct ==
    /\ []((args # Nil /\ FewNames) =>
            /\ \A i, k \in Returned :
                  i # k => /\ calls[i].path # calls[k].path
                           /\ calls[i].written # calls[k].written
            /\ \A i \in Returned : fs[calls[i].written] = File(calls[i].data))
    /\ [][(args # Nil /\ FewNames /\ PathReturned) =>
             /\ calls'[Len(calls')].written \notin DOMAIN fs
             /\ \A p \in DOMAIN fs : IsFile(fs, p) => fs'[p] = fs[p]]_vars

\* the two images of the first frame of a story were both written with
\* index 0 for foo.png: the second one is foo-1.png
C30_Witness ==
    /\ args # Nil
    /\ args.cmd = "story"
    /\ Len(calls) >= 2
    /\ calls[1].unit = 0 /\ calls[2].unit = 0
    /\ calls[1].index = 0 /\ calls[2].index = 0
    /\ calls[1].out = "foo.png" /\ calls[2].out = "foo.png"
    /\ calls[1].written = "foo.png"
    /\ calls[2].written = "foo-1.png"
    /\ fs["foo.png"] = File(calls[1].data)
    /\ fs["foo-1.png"] = File(calls[2].data)

=============================================================================
